---- MODULE Spec2Model ----
(***************************************************************************)
(* Model of qorm's connection layer: the connection pools                  *)
(* (qorm/connection/pool.py, SyncPool and AsyncPool), the retry wrapper    *)
(* (qorm/retry.py) and the session's reconnect-and-retry                   *)
(* (qorm/session.py).                                                      *)
(*                                                                         *)
(* SyncPool: every statement of acquire/release/close that touches the     *)
(* pool's shared fields is one step of the calling thread, so threads      *)
(* interleave between statements.  AsyncPool: the same statements, but a   *)
(* task keeps the event loop (cur) until it reaches an await that          *)
(* suspends.                                                               *)
(*                                                                         *)
(* A single connection (qorm/connection/sync_conn.py, async_conn.py,       *)
(* handshake.py): open with its stages, close, send and receive, the peer  *)
(* closing its end, and the cancellation of an AsyncConnection's caller at *)
(* an await.                                                               *)
(*                                                                         *)
(* The wire (qorm/protocol/serializer.py, deserializer.py, framing.py,     *)
(* compress.py, and the receive paths of the connections and of            *)
(* qorm/subscription.py): byte strings are sequences over 0..255, and      *)
(* every conversion is computed byte by byte as the code computes it.      *)
(***************************************************************************)
EXTENDS Integers, Sequences, FiniteSets, TLC

\* ---- bounds -------------------------------------------------------------
NThreads == 2
MaxSize == 2
MaxConns == 3
MaxRetries == 2
MaxBase == 2
MaxFactor == 2
MaxDelay == 4
MaxDown == 2
MaxStr == 2
MaxList == 2
MaxRun == 32
MaxInts == 5
MaxRaw == 48
MaxObjs == 1
MaxArgs == 1
MaxClauses == 1
MaxNum == 1
MaxRows == 3
MaxPages == 3
MaxPageSize == 2
MaxMsgs == 2

Threads == 1..NThreads
Conns == 1..MaxConns

VARIABLES
    \* pool configuration (fixed after construction)
    pasync, max_size, check_on_acquire,
    \* pool fields
    closed, size, pool, lock,
    \* connections: sock[c] = "open" iff _sock/_writer is not None
    sock, peerGone,
    \* callers
    pc, conn, res, cur,
    \* history: failed = connections on whose socket a send/receive failed;
    \* idleStale = connections whose peer closed while they sat idle;
    \* relWait: see Released; closeDone = some close() has returned
    failed, idleStale, relWait, closeDone,
    \* made[t]: the connection t's acquire has created and not yet fetched
    made,
    \* RetryPolicy fields
    max_retries, base_delay, max_delay, backoff_factor, retryable_errors,
    \* the arguments of retry_sync / retry_async: func and reconnect_fn are
    \* the Session's (session) or arbitrary callables; has_hook = reconnect_fn
    \* is not None
    session, has_hook,
    \* retry_sync's position, loop index and last_exc; how it ended
    rpc, attempt, last_exc, out,
    \* what it did, in order: log of calls and reconnects, sleeps taken
    log, sleeps,
    \* the Session's connection ("open", "stale" = open with the peer gone,
    \* "closed"), the connection attempts that will still fail, and how many
    \* that were at the start
    sconn, srvDown, outage,
    \* the Session's query: the codec error it meets, if any ("none",
    \* "SerializationError": an argument the serializer rejects,
    \* "DeserializationError": a reply the deserializer rejects)
    qfault,
    \* one connection object: AsyncConnection or SyncConnection, with or
    \* without tls_context; c_sock = "set" iff _sock/_writer is not None
    is_async, tls_context, c_sock,
    \* the operating system's socket of the current or last open ("none",
    \* "open", "closed"), whether the handshake completed on it, and whether
    \* the peer has closed its end
    fd, handshaken, peer_closed,
    \* the caller: its position, the operation it is in or was last in, how
    \* that ended, and for a failed open the stage that failed
    cpc, cop, cexc, cstage,
    \* history: a send/receive on the current socket failed with a
    \* connection-level error
    broken,
    \* the wire: the input (a value to serialize or a raw message), the
    \* message, its compressed form, what the peer sent, which receive path
    \* read it, the result, and the position in this pipeline
    wsrc, wmsg, wcomp, wire, wkind, wres, wstage,
    \* the query builders: the objects that exist (an object's identity is
    \* its index), and the last builder call with what it returned
    qobjs, qcall,
    \* paginate(): the table the server holds, the generator's arguments
    \* (query, page_size), its locals (page, paged, result), its position,
    \* the pages it yielded and the query texts it sent
    table, pgquery, page_size, page, paged, result, pgpc, pages, sent,
    \* a Subscriber: its fields _conn and _running; listen(): its position,
    \* its local reader and the message it is reading; the stream: the frames
    \* buffered and not yet read, whether it is at its end, and what of a cut
    \* frame came before the end; close(): whether it waits for the writer;
    \* history: how often the callback was called, how many frames the server
    \* sent, whether stop() was called while listen() ran
    _conn, _running, lpc, reader, lmsg, _buffer, eof, tail, closing, calls,
    sends, stopped

poolVars == <<pasync, max_size, check_on_acquire, closed, size,
              pool, lock, sock, peerGone, pc, conn, res, cur,
              failed, idleStale, relWait, closeDone, made>>

retryVars == <<max_retries, base_delay, max_delay, backoff_factor,
               retryable_errors, session, has_hook, rpc, attempt, last_exc,
               out, log, sleeps, sconn, srvDown, outage, qfault>>

connVars == <<is_async, tls_context, c_sock, fd, handshaken, peer_closed,
              cpc, cop, cexc, cstage, broken>>

wireVars == <<wsrc, wmsg, wcomp, wire, wkind, wres, wstage>>

queryVars == <<qobjs, qcall, table, pgquery, page_size, page, paged, result,
               pgpc, pages, sent>>

\* the parts of the model that pools, retry, connections and the wire do not
\* use
subVars == <<_conn, _running, lpc, reader, lmsg, _buffer, eof, tail, closing,
             calls, sends, stopped>>

restVars == <<queryVars, subVars>>

vars == <<poolVars, retryVars, connVars, wireVars, restVars>>

\* ---- helpers --------------------------------------------------------------
RECURSIVE SeqTo(_)
SeqTo(n) == IF n = 0 THEN <<>> ELSE Append(SeqTo(n - 1), n)

InPool(c) == \E i \in 1..Len(pool) : pool[i] = c

\* a connection object no reference to which is left (not idle, not held)
Free(c) == ~InPool(c) /\ \A t \in Threads : conn[t] # c

\* engine.connect(): a new connection object
NewConn == CHOOSE c \in Conns : Free(c) /\ \A d \in Conns : Free(d) => c <= d

\* the socket of connection c is closed (or c is dropped): what the model
\* remembers about that socket goes with it
Forget(c) ==
    /\ peerGone' = [peerGone EXCEPT ![c] = FALSE]
    /\ failed' = failed \ {c}
    /\ idleStale' = idleStale \ {c}

\* history for the blocked acquires: relWait[u] = 0, nothing seen; = t, caller
\* t called release on the open pool while u was blocked in the timed get
\* and has not finished it; = RelDone, such a release has returned
RelDone == 0 - 1
Released(t) == [u \in Threads |-> IF relWait[u] = t THEN RelDone ELSE relWait[u]]

\* SyncConnection.is_open / AsyncConnection.is_open
is_open(c) == sock[c] = "open"

\* a caller may run: always for threads; for tasks only when no other task
\* is between two suspension points
Sched(t) == cur = 0 \/ cur = t

\* after a step of t: an async task that did not reach a suspending await
\* keeps the event loop
Yield(t, suspends) == cur' = IF pasync /\ ~suspends THEN t ELSE 0

\* ---- construction -------------------------------------------------------
\* __init__(engine, min_size, max_size, timeout, check_on_acquire): the
\* fields, then min_size times _add_connection (AsyncPool: initialize())
PoolInit ==
    /\ pasync \in BOOLEAN
    /\ max_size \in 1..MaxSize
    /\ check_on_acquire \in BOOLEAN
    /\ closed = FALSE
    /\ \E min_size \in 0..max_size :
          /\ size = min_size
          /\ pool = SeqTo(min_size)
          /\ sock = [c \in Conns |-> IF c <= min_size THEN "open" ELSE "none"]
    /\ lock = 0
    /\ peerGone = [c \in Conns |-> FALSE]
    /\ pc = [t \in Threads |-> "idle"]
    /\ conn = [t \in Threads |-> 0]
    /\ res = [t \in Threads |-> "none"]
    /\ cur = 0
    /\ failed = {}
    /\ idleStale = {}
    /\ relWait = [t \in Threads |-> 0]
    /\ closeDone = FALSE
    /\ made = [t \in Threads |-> 0]

\* what no pool operation changes: the pool's configuration, and the retry
\* wrapper, which the pool does not use
cfgVars == <<pasync, max_size, check_on_acquire, retryVars, connVars,
             wireVars, restVars>>

\* ---- acquire (SyncPool.acquire / AsyncPool.acquire) -----------------------
\* AcqStart without the closed check
AcqStart_NoClosedCheck(t) ==
    /\ pc[t] = "idle"
    /\ Sched(t)
    /\ pc' = [pc EXCEPT ![t] = "a_get"]
    /\ res' = [res EXCEPT ![t] = "none"]
    /\ relWait' = [relWait EXCEPT ![t] = 0]
    /\ Yield(t, FALSE)
    /\ UNCHANGED <<cfgVars, made, closed, size, pool, lock, sock, peerGone,
                   conn, failed, idleStale, closeDone>>

\* if self._closed: raise PoolError
AcqStart(t) ==
    /\ pc[t] = "idle"
    /\ Sched(t)
    /\ IF closed
       THEN /\ res' = [res EXCEPT ![t] = "PoolError"]
            /\ Yield(t, TRUE)
            /\ UNCHANGED <<pc, relWait>>
       ELSE /\ pc' = [pc EXCEPT ![t] = "a_get"]
            /\ res' = [res EXCEPT ![t] = "none"]
            /\ relWait' = [relWait EXCEPT ![t] = 0]
            /\ Yield(t, FALSE)
    /\ UNCHANGED <<cfgVars, made, closed, size, pool, lock, sock, peerGone,
                   conn, failed, idleStale, closeDone>>

\* conn = self._pool.get(timeout=0) / get_nowait(); except Empty: ...
AcqGet(t) ==
    /\ pc[t] = "a_get"
    /\ Sched(t)
    /\ IF pool # <<>>
       THEN /\ conn' = [conn EXCEPT ![t] = Head(pool)]
            /\ pool' = Tail(pool)
            /\ pc' = [pc EXCEPT ![t] = "a_check"]
            /\ Yield(t, FALSE)
       ELSE /\ pc' = [pc EXCEPT ![t] = "a_lock"]
            /\ Yield(t, lock # 0)
            /\ UNCHANGED <<conn, pool>>
    /\ UNCHANGED <<cfgVars, made, closed, size, lock, sock, peerGone, res,
                   failed, idleStale, relWait, closeDone>>

\* with self._lock: if self._size < self._max_size: ...   (else fall through
\* to the blocking get, the lock released)
AcqLock(t) ==
    /\ pc[t] = "a_lock"
    /\ Sched(t)
    /\ lock = 0
    /\ IF size < max_size
       THEN /\ lock' = t
            /\ pc' = [pc EXCEPT ![t] = "a_add"]
       ELSE /\ pc' = [pc EXCEPT ![t] = "a_wait"]
            /\ UNCHANGED lock
    /\ Yield(t, TRUE)
    /\ UNCHANGED <<cfgVars, made, closed, size, pool, sock, peerGone, conn,
                   res, failed, idleStale, relWait, closeDone>>

\* _add_connection: conn = engine.connect(); conn.open(); self._pool.put(conn)
\* open() may raise ConnectionError, which leaves acquire through the with
AcqAdd(t) ==
    /\ pc[t] = "a_add"
    /\ Sched(t)
    /\ \/ /\ lock' = 0
          /\ pc' = [pc EXCEPT ![t] = "idle"]
          /\ res' = [res EXCEPT ![t] = "ConnectionError"]
          /\ Yield(t, TRUE)
          /\ UNCHANGED <<sock, pool, made>>
       \/ /\ \E c \in Conns : Free(c)
          /\ Len(pool) < max_size
          /\ sock' = [sock EXCEPT ![NewConn] = "open"]
          /\ pool' = Append(pool, NewConn)
          /\ made' = [made EXCEPT ![t] = NewConn]
          /\ pc' = [pc EXCEPT ![t] = "a_inc"]
          /\ Yield(t, FALSE)
          /\ UNCHANGED <<lock, res>>
    /\ UNCHANGED <<cfgVars, closed, size, peerGone, conn, failed, idleStale,
                   relWait, closeDone>>

\* _add_connection: self._size += 1
AcqInc(t) ==
    /\ pc[t] = "a_inc"
    /\ Sched(t)
    /\ size' = size + 1
    /\ pc' = [pc EXCEPT ![t] = "a_get2"]
    /\ Yield(t, FALSE)
    /\ UNCHANGED <<cfgVars, made, closed, pool, lock, sock, peerGone, conn,
                   res, failed, idleStale, relWait, closeDone>>

\* return self._pool.get(timeout=0): the connection is returned without the
\* health check; an empty queue raises queue.Empty out of acquire
AcqGet2(t) ==
    /\ pc[t] = "a_get2"
    /\ Sched(t)
    /\ lock' = 0
    /\ made' = [made EXCEPT ![t] = 0]
    /\ IF pool # <<>>
       THEN /\ conn' = [conn EXCEPT ![t] = Head(pool)]
            /\ pool' = Tail(pool)
            /\ pc' = [pc EXCEPT ![t] = "holding"]
            /\ res' = [res EXCEPT ![t] = "Conn"]
       ELSE /\ pc' = [pc EXCEPT ![t] = "idle"]
            /\ res' = [res EXCEPT ![t] = "Empty"]
            /\ UNCHANGED <<conn, pool>>
    /\ Yield(t, TRUE)
    /\ UNCHANGED <<cfgVars, closed, size, sock, peerGone, failed,
                   idleStale, relWait, closeDone>>

\* AcqWait handing out the head of the queue without removing it
AcqWait_Peek(t) ==
    /\ pc[t] = "a_wait"
    /\ Sched(t)
    /\ pool # <<>>
    /\ conn' = [conn EXCEPT ![t] = Head(pool)]
    /\ pc' = [pc EXCEPT ![t] = "a_check"]
    /\ relWait' = [relWait EXCEPT ![t] = 0]
    /\ Yield(t, FALSE)
    /\ UNCHANGED <<cfgVars, made, closed, size, pool, lock, sock, peerGone, res,
                   failed, idleStale, closeDone>>

\* conn = self._pool.get(timeout=self._timeout): a connection arrived
AcqWait(t) ==
    /\ pc[t] = "a_wait"
    /\ Sched(t)
    /\ pool # <<>>
    /\ conn' = [conn EXCEPT ![t] = Head(pool)]
    /\ pool' = Tail(pool)
    /\ pc' = [pc EXCEPT ![t] = "a_check"]
    /\ relWait' = [relWait EXCEPT ![t] = 0]
    /\ Yield(t, FALSE)
    /\ UNCHANGED <<cfgVars, made, closed, size, lock, sock, peerGone, res,
                   failed, idleStale, closeDone>>

\* ... except queue.Empty: raise PoolExhaustedError (the timeout elapsed with
\* the queue empty)
AcqTimeout(t) ==
    /\ pc[t] = "a_wait"
    /\ Sched(t)
    /\ pool = <<>>
    /\ pc' = [pc EXCEPT ![t] = "idle"]
    /\ res' = [res EXCEPT ![t] = "PoolExhaustedError"]
    /\ relWait' = [relWait EXCEPT ![t] = IF @ = RelDone THEN RelDone ELSE 0]
    /\ Yield(t, TRUE)
    /\ UNCHANGED <<cfgVars, made, closed, size, pool, lock, sock, peerGone,
                   conn, failed, idleStale, closeDone>>

\* if self._check_on_acquire and not conn.is_open:
\*     conn = self._replace_connection(conn)
\* return conn
AcqCheck(t) ==
    /\ pc[t] = "a_check"
    /\ Sched(t)
    /\ IF check_on_acquire /\ ~is_open(conn[t])
       THEN \* _replace_connection: dead_conn.close(); conn = connect();
            \* conn.open(); the dead object is dropped, the new one takes
            \* its place in the caller's variable
            /\ Forget(conn[t])
            /\ \/ /\ conn' = [conn EXCEPT ![t] = 0]
                  /\ pc' = [pc EXCEPT ![t] = "idle"]
                  /\ res' = [res EXCEPT ![t] = "ConnectionError"]
                  /\ UNCHANGED sock
               \/ /\ sock' = [sock EXCEPT ![conn[t]] = "open"]
                  /\ pc' = [pc EXCEPT ![t] = "holding"]
                  /\ res' = [res EXCEPT ![t] = "Conn"]
                  /\ UNCHANGED conn
       ELSE /\ pc' = [pc EXCEPT ![t] = "holding"]
            /\ res' = [res EXCEPT ![t] = "Conn"]
            /\ UNCHANGED <<conn, sock, peerGone, failed, idleStale>>
    /\ Yield(t, TRUE)
    /\ UNCHANGED <<cfgVars, made, closed, size, pool, lock, relWait, closeDone>>

\* task.cancel() on a task inside AsyncPool.acquire: CancelledError is raised
\* at the await the task is suspended in and leaves acquire (and its
\* `async with self._lock`). A cancelled conn.open() has either no socket yet
\* or leaves it as it is, open and owned by an object nobody refers to
\* ("leaked"): `except Exception` in AsyncConnection.open does not catch
\* CancelledError
AcqCancel(t) ==
    /\ pasync
    /\ \/ \* async with self._lock, the lock taken by another task
          /\ pc[t] = "a_lock" /\ lock # 0 /\ cur = 0
          /\ UNCHANGED <<lock, sock, conn, peerGone, failed, idleStale>>
       \/ \* await asyncio.wait_for(self._pool.get(), ...)
          /\ pc[t] = "a_wait" /\ cur = 0
          /\ UNCHANGED <<lock, sock, conn, peerGone, failed, idleStale>>
       \/ \* await self._add_connection(): await conn.open()
          /\ pc[t] = "a_add" /\ cur = 0
          /\ lock' = 0
          /\ \/ UNCHANGED sock
             \/ /\ \E c \in Conns : Free(c)
                /\ sock' = [sock EXCEPT ![NewConn] = "leaked"]
          /\ UNCHANGED <<conn, peerGone, failed, idleStale>>
       \/ \* await self._replace_connection(conn): await dead_conn.close(),
          \* await conn.open()
          /\ pc[t] = "a_check" /\ Sched(t)
          /\ check_on_acquire /\ ~is_open(conn[t])
          /\ Forget(conn[t])
          /\ conn' = [conn EXCEPT ![t] = 0]
          /\ \/ UNCHANGED sock
             \/ sock' = [sock EXCEPT ![conn[t]] = "leaked"]
          /\ UNCHANGED lock
    /\ pc' = [pc EXCEPT ![t] = "idle"]
    /\ res' = [res EXCEPT ![t] = "CancelledError"]
    /\ relWait' = [relWait EXCEPT ![t] = 0]
    /\ cur' = 0
    /\ UNCHANGED <<cfgVars, made, closed, size, pool, closeDone>>

\* ---- the caller's use of a held connection ------------------------------
\* SyncConnection.query -> send / receive -> _recv_exact: when the peer has
\* closed the socket the read raises ConnectionError; _sock is left as it is
Use(t) ==
    /\ pc[t] = "holding"
    /\ Sched(t)
    /\ is_open(conn[t])
    /\ peerGone[conn[t]]
    /\ failed' = failed \cup {conn[t]}
    /\ Yield(t, TRUE)
    /\ UNCHANGED <<cfgVars, made, closed, size, pool, lock, sock, peerGone,
                   pc, conn, res, idleStale, relWait, closeDone>>

\* SyncConnection.close / AsyncConnection.close by the caller holding it
CloseConn(t) ==
    /\ pc[t] = "holding"
    /\ Sched(t)
    /\ is_open(conn[t])
    /\ sock' = [sock EXCEPT ![conn[t]] = "none"]
    /\ Forget(conn[t])
    /\ Yield(t, TRUE)
    /\ UNCHANGED <<cfgVars, made, closed, size, pool, lock, pc, conn, res, relWait,
                   closeDone>>

\* SyncConnection.close / AsyncConnection.close on a connection that sits in
\* the idle queue, by a caller that released it and kept the reference
CloseIdle(c) ==
    /\ cur = 0
    /\ InPool(c)
    /\ is_open(c)
    /\ sock' = [sock EXCEPT ![c] = "none"]
    /\ Forget(c)
    /\ UNCHANGED <<cfgVars, made, closed, size, pool, lock, pc, conn, res, cur,
                   relWait, closeDone>>

\* the server closes its end of an established connection
PeerClose(c) ==
    /\ cur = 0
    /\ is_open(c)
    /\ ~peerGone[c]
    /\ peerGone' = [peerGone EXCEPT ![c] = TRUE]
    /\ idleStale' = IF InPool(c) THEN idleStale \cup {c} ELSE idleStale
    /\ UNCHANGED <<cfgVars, made, closed, size, pool, lock, sock, pc, conn,
                   res, cur, failed, relWait, closeDone>>

\* ---- release (SyncPool.release / AsyncPool.release) ----------------------
\* if self._closed: conn.close(); return
\* if conn.is_open: ... else: ...
RelStart(t) ==
    /\ pc[t] = "holding"
    /\ Sched(t)
    /\ IF closed
       THEN /\ sock' = [sock EXCEPT ![conn[t]] = "none"]
            /\ Forget(conn[t])
            /\ conn' = [conn EXCEPT ![t] = 0]
            /\ pc' = [pc EXCEPT ![t] = "idle"]
            /\ res' = [res EXCEPT ![t] = "none"]
            /\ Yield(t, TRUE)
            /\ UNCHANGED relWait
       ELSE /\ pc' = [pc EXCEPT ![t] =
                        IF is_open(conn[t]) THEN "r_put" ELSE "r_dec"]
            /\ res' = [res EXCEPT ![t] = "none"]
            /\ relWait' = [u \in Threads |->
                  IF pc[u] = "a_wait" /\ relWait[u] = 0 THEN t ELSE relWait[u]]
            /\ Yield(t, is_open(conn[t]) /\ Len(pool) >= max_size)
            /\ UNCHANGED <<sock, conn, peerGone, failed, idleStale>>
    /\ UNCHANGED <<cfgVars, made, closed, size, pool, lock, closeDone>>

\* self._pool.put(conn)   (blocks while the queue is full)
RelPut(t) ==
    /\ pc[t] = "r_put"
    /\ Sched(t)
    /\ Len(pool) < max_size
    /\ pool' = Append(pool, conn[t])
    /\ conn' = [conn EXCEPT ![t] = 0]
    /\ pc' = [pc EXCEPT ![t] = "idle"]
    /\ relWait' = Released(t)
    /\ Yield(t, TRUE)
    /\ UNCHANGED <<cfgVars, made, closed, size, lock, sock, peerGone, res, failed,
                   idleStale, closeDone>>

\* with self._lock: self._size -= 1      (AsyncPool: no lock)
RelDec(t) ==
    /\ pc[t] = "r_dec"
    /\ Sched(t)
    /\ pasync \/ lock = 0
    /\ size' = size - 1
    /\ conn' = [conn EXCEPT ![t] = 0]
    /\ pc' = [pc EXCEPT ![t] = "idle"]
    /\ Forget(conn[t])
    /\ relWait' = Released(t)
    /\ Yield(t, TRUE)
    /\ UNCHANGED <<cfgVars, made, closed, pool, lock, sock, res, closeDone>>

\* ---- close (SyncPool.close / AsyncPool.close) ----------------------------
\* self._closed = True
CloseStart(t) ==
    /\ pc[t] = "idle"
    /\ Sched(t)
    /\ closed' = TRUE
    /\ pc' = [pc EXCEPT ![t] = "c_drain"]
    /\ res' = [res EXCEPT ![t] = "none"]
    /\ Yield(t, FALSE)
    /\ UNCHANGED <<cfgVars, made, size, pool, lock, sock, peerGone, conn,
                   failed, idleStale, relWait, closeDone>>

\* while not self._pool.empty(): conn = self._pool.get_nowait(); conn.close()
CloseDrain(t) ==
    /\ pc[t] = "c_drain"
    /\ Sched(t)
    /\ IF pool # <<>>
       THEN /\ pool' = Tail(pool)
            /\ sock' = [sock EXCEPT ![Head(pool)] = "none"]
            /\ Forget(Head(pool))
            /\ Yield(t, TRUE)
            /\ UNCHANGED pc
       ELSE /\ pc' = [pc EXCEPT ![t] = "c_zero"]
            /\ Yield(t, FALSE)
            /\ UNCHANGED <<pool, sock, peerGone, failed, idleStale>>
    /\ UNCHANGED <<cfgVars, made, closed, size, lock, conn, res, relWait,
                   closeDone>>

\* self._size = 0
CloseZero(t) ==
    /\ pc[t] = "c_zero"
    /\ Sched(t)
    /\ size' = 0
    /\ pc' = [pc EXCEPT ![t] = "idle"]
    /\ closeDone' = TRUE
    /\ Yield(t, TRUE)
    /\ UNCHANGED <<cfgVars, made, closed, pool, lock, sock, peerGone, conn, res,
                   failed, idleStale, relWait>>

\* ---- retry (qorm/retry.py) and the session's use of it -------------------
\* The exception classes of exc.py that func and reconnect_fn raise here, and
\* their base classes
Kinds == {"ConnectionError", "HandshakeError", "QError"}
Bases(k) ==
    CASE k = "HandshakeError" -> {"HandshakeError", "ConnectionError", "QormError"}
      [] k = "AuthenticationError" ->
            {"AuthenticationError", "HandshakeError", "ConnectionError",
             "QormError"}
      [] k = "ConnectionError" -> {"ConnectionError", "QormError"}
      [] k = "QError" -> {"QError", "QueryError", "QormError"}
      [] k = "SerializationError" -> {"SerializationError", "QormError"}
      [] k = "DeserializationError" -> {"DeserializationError", "QormError"}
      [] OTHER -> {k}

\* except policy.retryable_errors: the clause matches instances of the listed
\* classes and of their subclasses
Retryable_Any(k) == TRUE
Retryable(k) == Bases(k) \cap retryable_errors # {}

\* if attempt >= policy.max_retries: raise
Exhausted_Gt(a) == a > max_retries
Exhausted(a) == a >= max_retries

RECURSIVE Pow(_, _)
Pow(b, e) == IF e = 0 THEN 1 ELSE b * Pow(b, e - 1)

Min(a, b) == IF a <= b THEN a ELSE b

\* compute_delay(attempt, policy)
compute_delay_NextAttempt(a) ==
    Min(base_delay * Pow(backoff_factor, a + 1), max_delay)
compute_delay(a) == Min(base_delay * Pow(backoff_factor, a), max_delay)

NoOutcome == [kind |-> "none", by |-> "none", exc |-> "none", call |-> 0]

Calls == Cardinality({i \in 1..Len(log) : log[i].e = "call"})

RetryInit ==
    /\ max_retries \in (0 - 1)..MaxRetries
    /\ base_delay \in 0..MaxBase
    /\ max_delay \in 1..MaxDelay
    /\ backoff_factor \in 0..MaxFactor
    /\ retryable_errors \in {{"ConnectionError"}, {"QError"}}
    /\ session \in BOOLEAN
    /\ has_hook \in BOOLEAN
    /\ session => has_hook
    /\ sconn \in (IF session THEN {"open", "stale"} ELSE {"closed"})
    /\ srvDown \in (IF session THEN 0..MaxDown ELSE {0})
    /\ outage = srvDown
    /\ qfault \in (IF session
                   THEN {"none", "SerializationError", "DeserializationError"}
                   ELSE {"none"})
    /\ rpc = "loop"
    /\ attempt = 0
    /\ last_exc = "none"
    /\ out = NoOutcome
    /\ log = <<>>
    /\ sleeps = <<>>

\* the retry wrapper is not in use
RetryOff ==
    /\ max_retries = 0 /\ base_delay = 0 /\ max_delay = 0
    /\ backoff_factor = 0 /\ retryable_errors = {}
    /\ session = FALSE /\ has_hook = FALSE
    /\ rpc = "off" /\ attempt = 0 /\ last_exc = "none" /\ out = NoOutcome
    /\ log = <<>> /\ sleeps = <<>>
    /\ sconn = "closed" /\ srvDown = 0 /\ outage = 0 /\ qfault = "none"

\* what one invocation of func can do: the Session's lambda is
\* self.connection.query(...): send (_sock is None -> ConnectionError; then
\* serialize_message, which rejects an argument it cannot serialize; then
\* sendall) and receive (a closed peer -> ConnectionError; then
\* deserialize_message, which rejects a reply it cannot decode).  Nothing
\* on these paths closes the connection.  Any other callable returns or
\* raises as it likes
FuncOutcomes ==
    IF session
    THEN (IF sconn = "closed" THEN {"ConnectionError"}
          ELSE IF qfault = "SerializationError" THEN {"SerializationError"}
          ELSE IF sconn # "open" THEN {"ConnectionError"}
          ELSE IF qfault = "DeserializationError" THEN {"DeserializationError"}
          ELSE {"ok"})
    ELSE {"ok"} \cup Kinds

\* what no step of retry changes: the policy, the arguments, and the parts of
\* the model retry does not use
policyVars == <<max_retries, base_delay, max_delay, backoff_factor,
                retryable_errors, session, has_hook, outage, qfault,
                connVars, wireVars, restVars>>

\* for attempt in range(max_retries + 1):
\*     try: return func()
\*     except policy.retryable_errors as exc:
\*         last_exc = exc
\*         if attempt >= policy.max_retries: raise
RetryCall ==
    /\ rpc = "loop"
    /\ attempt < max_retries + 1
    /\ \E o \in FuncOutcomes :
          /\ log' = Append(log, [e |-> "call", v |-> o])
          /\ IF o = "ok"
             THEN /\ rpc' = "returned"
                  /\ out' = [kind |-> "returned", by |-> "func",
                             exc |-> "none", call |-> Calls + 1]
                  /\ UNCHANGED last_exc
             ELSE IF Retryable(o)
             THEN /\ last_exc' = o
                  /\ IF Exhausted(attempt)
                     THEN /\ rpc' = "raised"
                          /\ out' = [kind |-> "raised", by |-> "func",
                                     exc |-> o, call |-> Calls + 1]
                     ELSE /\ rpc' = IF has_hook THEN "reconnect" ELSE "sleep"
                          /\ UNCHANGED out
             ELSE /\ rpc' = "raised"
                  /\ out' = [kind |-> "raised", by |-> "func",
                             exc |-> o, call |-> Calls + 1]
                  /\ UNCHANGED last_exc
    /\ UNCHANGED <<policyVars, attempt, sleeps, sconn, srvDown, poolVars>>

\* if reconnect_fn is not None: reconnect_fn()
\* Session._reconnect: self._conn.close(); self._conn = engine.connect();
\* self._conn.open()  -- open raises ConnectionError while the server is
\* unreachable; an exception of the hook is raised inside the except clause
\* and leaves retry_sync
RetryReconnect ==
    /\ rpc = "reconnect"
    /\ IF session
       THEN IF srvDown > 0
            THEN /\ srvDown' = srvDown - 1
                 /\ sconn' = "closed"
                 /\ log' = Append(log, [e |-> "reconnect", v |-> "ConnectionError"])
                 /\ rpc' = "raised"
                 /\ out' = [kind |-> "raised", by |-> "reconnect",
                            exc |-> "ConnectionError", call |-> Calls]
            ELSE /\ sconn' = "open"
                 /\ log' = Append(log, [e |-> "reconnect", v |-> "ok"])
                 /\ rpc' = "sleep"
                 /\ UNCHANGED <<srvDown, out>>
       ELSE
            /\ \E o \in {"ok"} \cup Kinds :
                  /\ log' = Append(log, [e |-> "reconnect", v |-> o])
                  /\ IF o = "ok"
                     THEN rpc' = "sleep" /\ UNCHANGED out
                     ELSE /\ rpc' = "raised"
                          /\ out' = [kind |-> "raised", by |-> "reconnect",
                                     exc |-> o, call |-> Calls]
            /\ UNCHANGED <<sconn, srvDown>>
    /\ UNCHANGED <<policyVars, attempt, last_exc, sleeps, poolVars>>

\* delay = compute_delay(attempt, policy); time.sleep(delay); next iteration
RetrySleep ==
    /\ rpc = "sleep"
    /\ sleeps' = Append(sleeps, compute_delay(attempt))
    /\ log' = Append(log, [e |-> "sleep", v |-> "ok"])
    /\ attempt' = attempt + 1
    /\ rpc' = "loop"
    /\ UNCHANGED <<policyVars, last_exc, out, sconn, srvDown, poolVars>>

\* raise last_exc after the loop: reached only when the loop body never ran
\* (max_retries < 0), and then last_exc is None and the raise is a TypeError
RetryFallThrough ==
    /\ rpc = "loop"
    /\ ~(attempt < max_retries + 1)
    /\ rpc' = "raised"
    /\ out' = [kind |-> "raised", by |-> "loop",
               exc |-> IF last_exc = "none" THEN "TypeError" ELSE last_exc,
               call |-> Calls]
    /\ UNCHANGED <<policyVars, attempt, last_exc, log, sleeps, sconn, srvDown,
                   poolVars>>

\* ---- one connection (sync_conn.py / async_conn.py) ------------------------
\* what no operation of the connection changes
nonConn == <<poolVars, retryVars, wireVars, restVars>>

\* SyncConnection.__init__ / AsyncConnection.__init__
ConnInit ==
    /\ is_async \in BOOLEAN
    /\ tls_context \in BOOLEAN
    /\ c_sock = "none"
    /\ fd = "none"
    /\ handshaken = FALSE
    /\ peer_closed = FALSE
    /\ cpc = "idle"
    /\ cop = "none"
    /\ cexc = "none"
    /\ cstage = "none"
    /\ broken = FALSE

\* is_open: return self._sock is not None / self._writer is not None
conn_is_open == c_sock # "none"

\* open(): if self._sock is not None: return
OpenStart ==
    /\ cpc = "idle"
    /\ cop' = "open"
    /\ IF conn_is_open
       THEN cexc' = "ok" /\ UNCHANGED cpc
       ELSE cexc' = "none" /\ cpc' = "o_connect"
    /\ cstage' = "none"
    /\ UNCHANGED <<is_async, tls_context, c_sock, fd, handshaken, peer_closed,
                   broken, nonConn>>

\* sync: sock = socket.create_connection(...); except OSError: raise QConnError
\*       (without tls_context: self._sock = sock)
\* async: self._reader, self._writer = await asyncio.wait_for(
\*            asyncio.open_connection(host, port, ssl=self.tls_context), timeout)
\*        except OSError: raise QConnError
\* open_connection does the TLS handshake too and closes its socket when that
\* fails; the timeout of wait_for is an OSError on Python >= 3.11 and a plain
\* Exception before
OpenConnect ==
    /\ cpc = "o_connect"
    /\ \/ /\ fd' = "open"
          /\ peer_closed' = FALSE
          /\ handshaken' = FALSE
          /\ broken' = FALSE
          /\ IF is_async \/ ~tls_context
             THEN c_sock' = "set" /\ cpc' = "o_hs_send"
             ELSE cpc' = "o_tls" /\ UNCHANGED c_sock
          /\ UNCHANGED <<cexc, cstage>>
       \/ /\ \E st \in (IF is_async /\ tls_context
                        THEN {"connect", "tls"} ELSE {"connect"}) :
                /\ cstage' = st
                /\ fd' = IF st = "tls" THEN "closed" ELSE "none"
          /\ cexc' \in (IF is_async THEN {"ConnectionError", "TimeoutError"}
                                   ELSE {"ConnectionError"})
          /\ cpc' = "idle"
          /\ UNCHANGED <<c_sock, peer_closed, handshaken, broken>>
    /\ UNCHANGED <<is_async, tls_context, cop, nonConn>>

\* sync, with tls_context:
\*   try: sock = self.tls_context.wrap_socket(sock, ...)
\*   except ssl.SSLError: sock.close(); raise QConnError
\*   self._sock = sock
\* an OSError that is no SSLError (reset, timeout) passes the except clause;
\* ssl.SSLSocket._create has closed the socket before raising it
OpenTls ==
    /\ cpc = "o_tls"
    /\ \/ /\ c_sock' = "set"
          /\ cpc' = "o_hs_send"
          /\ UNCHANGED <<fd, cexc, cstage>>
       \/ /\ fd' = "closed"
          /\ cexc' \in {"ConnectionError", "OSError"}
          /\ cstage' = "tls"
          /\ cpc' = "idle"
          /\ UNCHANGED c_sock
    /\ UNCHANGED <<is_async, tls_context, handshaken, peer_closed, cop, broken,
                   nonConn>>

\* the handler around _handshake that re-raises without closing
HandshakeFailed_NoClose(exc, stage) ==
    /\ cexc' = exc
    /\ cstage' = stage
    /\ cpc' = "idle"
    /\ UNCHANGED <<fd, c_sock>>

\* sync:  except Exception: self._sock.close(); self._sock = None; raise
\* async: except Exception: await self.close(); raise
\*        close(): self._writer.close(); await self._writer.wait_closed() ...
HandshakeFailed(exc, stage) ==
    /\ cexc' = exc
    /\ cstage' = stage
    /\ fd' = "closed"
    /\ IF is_async
       THEN cpc' = "o_closing" /\ UNCHANGED c_sock
       ELSE cpc' = "idle" /\ c_sock' = "none"

\* _handshake: self._sock.sendall(hs) / self._writer.write(hs); await drain()
OpenHsSend ==
    /\ cpc = "o_hs_send"
    /\ \/ /\ cpc' = "o_hs_recv"
          /\ UNCHANGED <<fd, c_sock, cexc, cstage>>
       \/ HandshakeFailed("OSError", "hs_send")
    /\ UNCHANGED <<is_async, tls_context, handshaken, peer_closed, cop, broken,
                   nonConn>>

\* _handshake: resp = self._sock.recv(1) / await wait_for(reader.read(1));
\* self._capability = parse_handshake_response(resp): one byte is the
\* capability; no byte (the peer closed) is AuthenticationError; more than
\* one byte cannot come out of a read of one
OpenHsRecv ==
    /\ cpc = "o_hs_recv"
    /\ \/ /\ ~peer_closed
          /\ handshaken' = TRUE
          /\ cexc' = "ok"
          /\ cpc' = "idle"
          /\ UNCHANGED <<fd, c_sock, cstage, peer_closed>>
       \/ /\ peer_closed' = TRUE
          /\ HandshakeFailed("AuthenticationError", "hs_recv")
          /\ UNCHANGED handshaken
       \/ /\ HandshakeFailed(IF is_async THEN "TimeoutError" ELSE "OSError",
                             "hs_recv")
          /\ UNCHANGED <<handshaken, peer_closed>>
    /\ UNCHANGED <<is_async, tls_context, cop, broken, nonConn>>

\* async close(), after wait_closed() returned or raised OSError:
\* self._writer = None; self._reader = None; then open re-raises
OpenClosing ==
    /\ cpc = "o_closing"
    /\ c_sock' = "none"
    /\ cpc' = "idle"
    /\ UNCHANGED <<is_async, tls_context, fd, handshaken, peer_closed, cop,
                   cexc, cstage, broken, nonConn>>

\* the task in open() is cancelled at an await: CancelledError is raised
\* there.  It is a BaseException, so neither except OSError nor except
\* Exception catches it.  At the connect, open_connection gives its socket
\* up; in _handshake the fields stay as they are; in wait_closed() the
\* transport is closed already but _writer is not yet cleared
Cancel ==
    /\ is_async
    /\ cpc \in {"o_connect", "o_hs_send", "o_hs_recv", "o_closing"}
    /\ cexc' = "CancelledError"
    /\ cstage' = cpc
    /\ cpc' = "idle"
    /\ UNCHANGED <<is_async, tls_context, c_sock, fd, handshaken, peer_closed,
                   cop, broken, nonConn>>

\* close(): if self._sock is not None: self._sock.close(); self._sock = None
ConnClose ==
    /\ cpc = "idle"
    /\ conn_is_open
    /\ c_sock' = "none"
    /\ fd' = "closed"
    /\ handshaken' = FALSE
    /\ broken' = FALSE
    /\ cop' = "close"
    /\ cexc' = "ok"
    /\ cstage' = "none"
    /\ UNCHANGED <<is_async, tls_context, peer_closed, cpc, nonConn>>

\* send(): if self._sock is None: raise QConnError("Connection is not open")
\* self._sock.sendall(data) / self._writer.write(data); await drain(): the
\* OSError of a dead socket passes through; a first write to a socket whose
\* peer has closed may still be accepted
ConnSend ==
    /\ cpc = "idle"
    /\ cop' = "send"
    /\ IF ~conn_is_open
       THEN /\ cexc' = "ConnectionError"
            /\ cstage' = "not_open"
            /\ UNCHANGED broken
       ELSE \/ /\ fd = "open"
               /\ cexc' = "ok"
               /\ cstage' = "none"
               /\ UNCHANGED broken
            \/ /\ fd # "open" \/ peer_closed
               /\ cexc' = "OSError"
               /\ cstage' = "io"
               /\ broken' = TRUE
    /\ UNCHANGED <<is_async, tls_context, c_sock, fd, handshaken, peer_closed,
                   cpc, nonConn>>

\* receive(): if self._sock is None: raise QConnError("Connection is not open")
\* sync:  _recv_exact: if not chunk: raise QConnError("Connection closed ...")
\* async: await self._reader.readexactly(n): asyncio.IncompleteReadError
\* neither clears _sock / _writer
ConnReceive ==
    /\ cpc = "idle"
    /\ cop' = "receive"
    /\ IF ~conn_is_open
       THEN /\ cexc' = "ConnectionError"
            /\ cstage' = "not_open"
            /\ UNCHANGED broken
       ELSE IF fd = "open" /\ ~peer_closed
       THEN /\ cexc' = "ok"
            /\ cstage' = "none"
            /\ UNCHANGED broken
       ELSE /\ cexc' = IF is_async THEN "IncompleteReadError"
                                   ELSE "ConnectionError"
            /\ cstage' = "io"
            /\ broken' = TRUE
    /\ UNCHANGED <<is_async, tls_context, c_sock, fd, handshaken, peer_closed,
                   cpc, nonConn>>

\* the server closes its end of the connection
ConnPeerClose ==
    /\ fd = "open"
    /\ ~peer_closed
    /\ peer_closed' = TRUE
    /\ UNCHANGED <<is_async, tls_context, c_sock, fd, handshaken, cpc, cop,
                   cexc, cstage, broken, nonConn>>

ConnNext ==
    \/ OpenStart \/ OpenConnect \/ OpenTls \/ OpenHsSend \/ OpenHsRecv
    \/ OpenClosing \/ Cancel
    \/ ConnClose \/ ConnSend \/ ConnReceive \/ ConnPeerClose

\* ---- the wire: bytes (struct, protocol/framing.py) -----------------------
Byte == 0..255

RECURSIVE Zeros(_)
Zeros(n) == IF n <= 0 THEN <<>> ELSE <<0>> \o Zeros(n - 1)

RECURSIVE Reverse(_)
Reverse(s) == IF s = <<>> THEN <<>> ELSE Append(Reverse(Tail(s)), Head(s))

\* data[a:b] of Python: a negative bound counts from the end, and the
\* bounds are clipped to the data
SliceBound(n, i) ==
    LET j == IF i < 0 THEN i + n ELSE i
    IN IF j < 0 THEN 0 ELSE IF j > n THEN n ELSE j

Slice(data, a, b) ==
    LET lo == SliceBound(Len(data), a)
        hi == SliceBound(Len(data), b)
    IN IF hi <= lo THEN <<>> ELSE SubSeq(data, lo + 1, hi)

\* struct.pack('<b/h/i/q', n): two's complement, little-endian, w bytes, of
\* an integer of at most 32 bits
RECURSIVE PackInt(_, _)
PackInt(n, w) ==
    IF w = 0 THEN <<>>
    ELSE IF n >= 0 THEN <<n % 256>> \o PackInt(n \div 256, w - 1)
    ELSE <<255 - ((0 - n - 1) % 256)>> \o
         PackInt(0 - (((0 - n - 1) \div 256) + 1), w - 1)

\* the integer of at most 32 bits that little-endian bytes b hold, signed
RECURSIVE UnsignedLE(_)
UnsignedLE(b) == IF b = <<>> THEN 0 ELSE Head(b) + 256 * UnsignedLE(Tail(b))

SignedLE(b) ==
    LET w == Len(b)
        top == b[w]
    IN IF top < 128 THEN UnsignedLE(b)
       ELSE UnsignedLE(SubSeq(b, 1, w - 1) \o <<0>>)
            + (top - 256) * Pow(256, w - 1)

\* bytes 5..8 of a 64-bit value only repeat the sign of a 32-bit one
Fits32(b) ==
    \/ b[4] < 128 /\ \A i \in 5..8 : b[i] = 0
    \/ b[4] >= 128 /\ \A i \in 5..8 : b[i] = 255

\* pack_header(msg_type, payload_length): _HEADER_LE '<BBHi' with
\* LITTLE_ENDIAN = 1 and reserved 0
HEADER_SIZE == 8
pack_header(msg_type, total_length) ==
    <<1, msg_type, 0, 0>> \o PackInt(total_length, 4)

\* unpack_header(data): ValueError when shorter than the header; the endian
\* byte selects the byte order of the length
unpack_header(data) ==
    IF Len(data) < HEADER_SIZE
    THEN [err |-> "ValueError", endian |-> 0, msg_type |-> 0,
          total_length |-> 0]
    ELSE [err |-> "none", endian |-> data[1], msg_type |-> data[2],
          total_length |->
              SignedLE(IF data[1] = 1 THEN SubSeq(data, 5, 8)
                       ELSE Reverse(SubSeq(data, 5, 8)))]

\* ---- values ------------------------------------------------------------
\* A Python value is a pair <<t, v>>: t its type, v a sequence:
\*   bool   <<0>> / <<1>>          int    <<n>>   (n of at most 32 bits)
\*   bigint its 8 bytes, little-endian two's complement (an int beyond 32 bits)
\*   float  its 8 IEEE-754 bytes, little-endian
\*   str    its code points        bytes  its bytes
\*   guid   the 16 bytes of the uuid.UUID
\*   date   <<proleptic ordinal>>  time   <<hour, minute, second, microsecond>>
\*   list   its items               QNull  <<type code>>
\*   set    its items (a type the serializer does not know)
Val(t, v) == <<t, v>>
PyInt(n) == Val("int", <<n>>)
PyBool(b) == Val("bool", <<IF b THEN 1 ELSE 0>>)
QNull(tc) == Val("QNull", <<tc>>)
Nil == Val("None", <<>>)

\* QTypeCode (protocol/constants.py)
QBOOLEAN == 1
GUID == 2
BYTE == 4
SHORT == 5
INT == 6
LONG == 7
REAL == 8
FLOAT == 9
CHAR == 10
SYMBOL == 11
TIMESTAMP == 12
MONTH == 13
DATE == 14
DATETIME == 15
TIMESPAN == 16
MINUTE == 17
SECOND == 18
TIME == 19
TABLE == 98
DICT == 99
SORTED_DICT == 127
GUID_SIZE == 16

\* TYPE_STRUCT: the struct format of a type code (none for GUID and SYMBOL)
TypeFmt(tc) ==
    CASE tc = QBOOLEAN -> "b"
      [] tc = BYTE -> "B"
      [] tc = SHORT -> "h"
      [] tc \in {INT, MONTH, DATE, MINUTE, SECOND, TIME} -> "i"
      [] tc \in {LONG, TIMESTAMP, TIMESPAN} -> "q"
      [] tc = REAL -> "f"
      [] tc \in {FLOAT, DATETIME} -> "d"
      [] tc = CHAR -> "c"
      [] OTHER -> "none"

\* struct.calcsize
FmtSize(f) ==
    CASE f \in {"b", "B", "c"} -> 1
      [] f = "h" -> 2
      [] f \in {"i", "f"} -> 4
      [] OTHER -> 8

\* the type codes with an entry in NULL_VALUES (types/nulls.py)
NullCodes == {QBOOLEAN, GUID} \cup (BYTE..TIME)

\* the bytes struct.pack(fmt, NULL_VALUES[tc]) writes: 0 for False and 0x00,
\* the smallest integer of the width, the quiet NaN of the width
NullBytes(tc) ==
    LET f == TypeFmt(tc)
    IN CASE f \in {"b", "B"} -> <<0>>
         [] f \in {"h", "i", "q"} -> Zeros(FmtSize(f) - 1) \o <<128>>
         [] f = "f" -> <<0, 0, 192, 127>>
         [] OTHER -> <<0, 0, 0, 0, 0, 0, 248, 127>>

\* math.isnan of the float that little-endian IEEE bytes b hold
IsNaN(b) ==
    LET w == Len(b)
    IN IF w = 4
       THEN /\ b[4] % 128 = 127 /\ b[3] >= 128
            /\ (b[3] % 128 # 0 \/ b[2] # 0 \/ b[1] # 0)
       ELSE /\ b[8] % 128 = 127 /\ b[7] >= 240
            /\ (b[7] % 16 # 0 \/ \E i \in 1..6 : b[i] # 0)

\* datetime.date(2000, 1, 1).toordinal()
Q_EPOCH == 730120

\* ---- Serializer (protocol/serializer.py) ---------------------------------
\* the result of serializing: the bytes written, or the exception raised
SerOk(b) == [err |-> "none", bytes |-> b]
SerErr(e) == [err |-> e, bytes |-> <<>>]

\* _serialize_atom_null(type_code)
\*   self._write_byte(256 - type_code); null_val = NULL_VALUES[type_code]
\*   GUID: 16 zero bytes; SYMBOL: one zero byte;
\*   else: self._pack_into(fmt, null_val) -- for CHAR the format 'c' is given
\*   the str ' ', which struct rejects
_serialize_atom_null(tc) ==
    IF tc \notin NullCodes THEN SerErr("KeyError")
    ELSE IF tc = GUID THEN SerOk(<<256 - tc>> \o Zeros(GUID_SIZE))
    ELSE IF tc = SYMBOL THEN SerOk(<<256 - tc, 0>>)
    ELSE IF tc = CHAR THEN SerErr("struct.error")
    ELSE SerOk(<<256 - tc>> \o NullBytes(tc))

\* python_to_time(t) (types/temporal.py)
python_to_time(t) ==
    (t[1] * 3600 + t[2] * 60 + t[3]) * 1000 + t[4] \div 1000

\* _serialize(obj): the isinstance dispatch, in its order
RECURSIVE _serialize(_)
RECURSIVE SerializeItems(_, _)
SerializeItems(items, acc) ==
    IF items = <<>> THEN SerOk(acc)
    ELSE LET r == _serialize(Head(items))
         IN IF r.err # "none" THEN r
            ELSE SerializeItems(Tail(items), acc \o r.bytes)

_serialize(obj) ==
    CASE obj[1] = "QNull" -> _serialize_atom_null(obj[2][1])
      [] obj[1] = "bool" -> SerOk(<<256 - QBOOLEAN, obj[2][1]>>)
      [] obj[1] = "int" -> SerOk(<<256 - LONG>> \o PackInt(obj[2][1], 8))
      [] obj[1] = "bigint" -> SerOk(<<256 - LONG>> \o obj[2])
      [] obj[1] = "float" -> SerOk(<<256 - FLOAT>> \o obj[2])
      [] obj[1] = "str" ->
            SerOk(<<CHAR, 0>> \o PackInt(Len(obj[2]), 4) \o obj[2])
      [] obj[1] = "bytes" ->
            SerOk(<<BYTE, 0>> \o PackInt(Len(obj[2]), 4) \o obj[2])
      [] obj[1] = "date" ->
            SerOk(<<256 - DATE>> \o PackInt(obj[2][1] - Q_EPOCH, 4))
      [] obj[1] = "time" ->
            SerOk(<<256 - TIME>> \o PackInt(python_to_time(obj[2]), 4))
      [] obj[1] = "guid" -> SerOk(<<256 - GUID>> \o obj[2])
      [] obj[1] = "list" ->
            SerializeItems(obj[2], <<0, 0>> \o PackInt(Len(obj[2]), 4))
      [] OTHER -> SerErr("SerializationError")

\* serialize_message(obj, msg_type): the payload after 8 reserved bytes,
\* then the header over them
serialize_message(obj, msg_type) ==
    LET r == _serialize(obj)
    IN IF r.err # "none" THEN r
       ELSE SerOk(pack_header(msg_type, HEADER_SIZE + Len(r.bytes)) \o r.bytes)

\* ---- Deserializer (protocol/deserializer.py) -----------------------------
\* the result of a read: the value and the new _pos, or the exception raised
DesOk(v, p) == [err |-> "none", val |-> v, pos |-> p]
DesErr(e) == [err |-> e, val |-> Nil, pos |-> 0]

\* bytes(...).decode('utf-8') of ASCII bytes; errors='replace' puts U+FFFD
\* for a byte that is no ASCII
Decode(b) == [i \in 1..Len(b) |-> IF b[i] < 128 THEN b[i] ELSE 65533]

\* the Python int that the w little-endian bytes b of a signed field hold
IntVal(b) ==
    IF Len(b) <= 4 THEN PyInt(SignedLE(b))
    ELSE IF Fits32(b) THEN PyInt(SignedLE(SubSeq(b, 1, 4)))
    ELSE Val("bigint", b)

\* time_to_python(millis): divmod chain, datetime.time(h, m, s, ms * 1000),
\* which rejects an hour outside 0..23
time_to_python(millis) ==
    LET secs == millis \div 1000
        ms == millis % 1000
        m0 == secs \div 60
        s == secs % 60
        h == m0 \div 60
        m == m0 % 60
    IN IF millis < 0 \/ h > 23 THEN DesErr("ValueError")
       ELSE DesOk(Val("time", <<h, m, s, ms * 1000>>), 0)

\* is_null(raw, tc) and _convert_atom(tc, raw) for the raw field b (put in
\* little-endian order) of format TypeFmt(tc)
AtomOf(tc, b) ==
    LET f == TypeFmt(tc)
    IN IF f \in {"f", "d"}
       THEN (IF IsNaN(b) THEN DesOk(QNull(tc), 0)
             ELSE IF tc = DATETIME THEN DesOk(Val("datetime", b), 0)
             ELSE DesOk(Val("float", b), 0))
       ELSE IF f = "B"
       THEN (IF b[1] = 0 THEN DesOk(QNull(tc), 0) ELSE DesOk(PyInt(b[1]), 0))
       ELSE IF f = "b"
       THEN (IF b[1] = 0 THEN DesOk(QNull(tc), 0)
             ELSE DesOk(PyInt(SignedLE(b)), 0))
       ELSE IF b = NullBytes(tc) THEN DesOk(QNull(tc), 0)
       ELSE IF tc = DATE
       THEN DesOk(Val("date", <<Q_EPOCH + SignedLE(b)>>), 0)
       ELSE IF tc = TIME THEN time_to_python(SignedLE(b))
       ELSE IF tc \in {SHORT, INT, LONG} THEN DesOk(IntVal(b), 0)
       ELSE \* the other temporal types: the value is a function of the type
            \* code and the raw integer
            DesOk(Val("temporal", <<tc>> \o b), 0)

\* _unpack(fmt): struct.unpack_from needs the whole field inside the buffer
Field(data, pos, le, w) ==
    IF pos + w > Len(data) THEN <<>>
    ELSE IF le THEN SubSeq(data, pos + 1, pos + w)
    ELSE Reverse(SubSeq(data, pos + 1, pos + w))

\* _read_symbol: up to the zero byte; running off the end is an IndexError
RECURSIVE SymbolEnd(_, _)
SymbolEnd(data, pos) ==
    IF pos >= Len(data) THEN 0 - 1
    ELSE IF data[pos + 1] = 0 THEN pos
    ELSE SymbolEnd(data, pos + 1)

\* .decode('utf-8') is strict: a byte above 127 that is part of no UTF-8
\* sequence is a UnicodeDecodeError (the symbols of the inputs hold ASCII
\* bytes and such lone bytes, no multi-byte sequences)
_read_symbol(data, pos) ==
    LET e == SymbolEnd(data, pos)
    IN IF e < 0 THEN DesErr("IndexError")
       ELSE IF \E i \in (pos + 1)..e : data[i] > 127
       THEN DesErr("UnicodeDecodeError")
       ELSE DesOk(Val("str", Slice(data, pos, e)), e + 1)

\* the valid members of QTypeCode among 1..127
ValidCode(tc) ==
    tc \in ({QBOOLEAN, GUID} \cup (BYTE..TIME) \cup {TABLE, DICT, SORTED_DICT}
            \cup (100..111))

\* _deserialize_atom(type_code)
_deserialize_atom(data, pos, le, tc) ==
    IF ~ValidCode(tc) THEN DesErr("ValueError")
    ELSE IF tc = QBOOLEAN
    THEN (IF pos >= Len(data) THEN DesErr("IndexError")
          ELSE DesOk(PyBool(data[pos + 1] # 0), pos + 1))
    ELSE IF tc = GUID
    THEN (LET raw == Slice(data, pos, pos + GUID_SIZE)
          IN IF Len(raw) # GUID_SIZE THEN DesErr("ValueError")
             ELSE IF raw = Zeros(GUID_SIZE)
             THEN DesOk(QNull(tc), pos + GUID_SIZE)
             ELSE DesOk(Val("guid", raw), pos + GUID_SIZE))
    ELSE IF tc = SYMBOL THEN _read_symbol(data, pos)
    ELSE IF tc = CHAR
    THEN (IF pos >= Len(data) THEN DesErr("IndexError")
          ELSE DesOk(Val("str", <<data[pos + 1]>>), pos + 1))
    ELSE IF TypeFmt(tc) = "none" THEN DesErr("KeyError")
    ELSE LET w == FmtSize(TypeFmt(tc))
             b == Field(data, pos, le, w)
         IN IF b = <<>> THEN DesErr("struct.error")
            ELSE LET a == AtomOf(tc, b)
                 IN IF a.err # "none" THEN a ELSE DesOk(a.val, pos + w)

\* _read_byte() / _unpack('i') at the head of a vector: the attribute byte
\* and the count; err is the exception of the read that failed
VecHead(data, pos, le) ==
    IF pos >= Len(data) THEN [err |-> "IndexError", count |-> 0, pos |-> 0]
    ELSE LET b == Field(data, pos + 1, le, 4)
         IN IF b = <<>> THEN [err |-> "struct.error", count |-> 0, pos |-> 0]
            ELSE [err |-> "none", count |-> SignedLE(b), pos |-> pos + 5]

\* _unpack_many(fmt, count) and the conversion of each item: a negative
\* count is no struct format, and the count * width bytes must be there
FixedItems(data, pos, le, tc, w, count) ==
    IF count < 0 \/ count > Len(data) \/ pos + count * w > Len(data)
    THEN DesErr("struct.error")
    ELSE LET item(i) == AtomOf(tc, Field(data, pos + (i - 1) * w, le, w))
             bad == {i \in 1..count : item(i).err # "none"}
         IN IF bad # {}
            THEN item(CHOOSE i \in bad : \A j \in bad : i <= j)
            ELSE DesOk(Val("list", [i \in 1..count |-> item(i).val]),
                       pos + count * w)

RECURSIVE _deserialize(_, _, _)
RECURSIVE ReadItems(_, _, _, _, _, _)
RECURSIVE ReadMore(_, _, _, _, _, _)

\* [self._deserialize() for _ in range(count)], and the same loop over
\* _read_symbol() and over the 16 bytes of a GUID
ReadItems(data, pos, le, kind, count, acc) ==
    IF count <= 0 THEN DesOk(Val("list", acc), pos)
    ELSE ReadMore(data, le, kind, count, acc,
                  CASE kind = "any" -> _deserialize(data, pos, le)
                    [] kind = "symbol" -> _read_symbol(data, pos)
                    [] OTHER -> _deserialize_atom(data, pos, le, GUID))

\* the item r is read: its exception ends the loop, its value joins the list
ReadMore(data, le, kind, count, acc, r) ==
    IF r.err # "none" THEN r
    ELSE ReadItems(data, r.pos, le, kind, count - 1, Append(acc, r.val))

\* _deserialize_mixed_list
_deserialize_mixed_list(data, pos, le) ==
    LET h == VecHead(data, pos, le)
    IN IF h.err # "none" THEN DesErr(h.err)
       ELSE ReadItems(data, h.pos, le, "any", h.count, <<>>)

\* _deserialize_vector(type_code)
_deserialize_vector(data, pos, le, tc) ==
    IF ~ValidCode(tc) THEN DesErr("ValueError")
    ELSE LET h == VecHead(data, pos, le)
         IN IF h.err # "none" THEN DesErr(h.err)
            ELSE IF tc = SYMBOL
            THEN ReadItems(data, h.pos, le, "symbol", h.count, <<>>)
            ELSE IF tc = GUID
            THEN ReadItems(data, h.pos, le, "guid", h.count, <<>>)
            ELSE IF tc = CHAR
            THEN DesOk(Val("str", Decode(Slice(data, h.pos, h.pos + h.count))),
                       h.pos + h.count)
            ELSE IF tc = QBOOLEAN
            THEN LET raw == Slice(data, h.pos, h.pos + h.count)
                 IN DesOk(Val("list", [i \in 1..Len(raw) |-> PyBool(raw[i] # 0)]),
                          h.pos + h.count)
            ELSE FixedItems(data, h.pos, le, tc, FmtSize(TypeFmt(tc)), h.count)

\* _deserialize_enum_vector: the int32 indices
_deserialize_enum_vector(data, pos, le) ==
    LET h == VecHead(data, pos, le)
    IN IF h.err # "none" THEN DesErr(h.err)
       ELSE IF h.count = 0 THEN DesOk(Val("list", <<>>), h.pos)
       ELSE FixedItems(data, h.pos, le, INT, 4, h.count)

\* _deserialize_error: msg = self._read_symbol(); raise QError(msg)
_deserialize_error(data, pos) ==
    LET r == _read_symbol(data, pos)
    IN IF r.err # "none" THEN r ELSE DesErr("QError")

\* the keys of a dict are compared with ==: True == 1 (floats are compared
\* by their bytes)
KeyEq(a, b) ==
    \/ a[1] = b[1] /\ a[2] = b[2]
    \/ a[1] \in {"bool", "int"} /\ b[1] \in {"bool", "int"} /\ a[2][1] = b[2][1]

\* dict(zip(keys, values)): as many pairs as the shorter list has; a key that
\* comes again keeps its place and takes the later value; a list or a dict
\* is no key (TypeError: unhashable).  A dict is the sequence of its
\* <<key, value>> pairs in insertion order
dict_zip(keys, values, pos) ==
    LET n == Min(Len(keys), Len(values))
        firsts == {i \in 1..n : \A j \in 1..(i - 1) : ~KeyEq(keys[j], keys[i])}
        nth(k) == CHOOSE i \in firsts : Cardinality({j \in firsts : j < i}) = k - 1
        last(i) == CHOOSE j \in i..n :
                      /\ KeyEq(keys[j], keys[i])
                      /\ \A m \in (j + 1)..n : ~KeyEq(keys[m], keys[i])
    IN IF \E i \in 1..n : keys[i][1] \in {"list", "dict"}
       THEN DesErr("TypeError")
       ELSE DesOk(Val("dict", [k \in 1..Cardinality(firsts) |->
                                  <<keys[nth(k)], values[last(nth(k))]>>]),
                  pos)

\* the str keys 'keys', 'values' and '__table__'
KEYS == Val("str", <<107, 101, 121, 115>>)
VALUES == Val("str", <<118, 97, 108, 117, 101, 115>>)
TABLE_MARK == Val("str", <<95, 95, 116, 97, 98, 108, 101, 95, 95>>)

\* _deserialize_dict once keys and values are read
DictOf(keys, values) ==
    IF keys.err # "none" THEN keys
    ELSE IF values.err # "none" THEN values
    ELSE IF keys.val[1] = "list" /\ values.val[1] = "list"
    THEN dict_zip(keys.val[2], values.val[2], values.pos)
    ELSE DesOk(Val("dict", <<<<KEYS, keys.val>>, <<VALUES, values.val>>>>),
               values.pos)

\* values = self._deserialize() after the keys
DictValues(data, le, keys) ==
    IF keys.err # "none" THEN keys
    ELSE DictOf(keys, _deserialize(data, keys.pos, le))

\* _deserialize_dict
_deserialize_dict(data, pos, le) ==
    DictValues(data, le, _deserialize(data, pos, le))

\* inner['__table__'] = True
SetTable(d) ==
    LET at == {i \in 1..Len(d) : d[i][1] = TABLE_MARK}
    IN IF at = {} THEN Append(d, <<TABLE_MARK, PyBool(TRUE)>>)
       ELSE [i \in 1..Len(d) |->
                IF i \in at THEN <<d[i][1], PyBool(TRUE)>> ELSE d[i]]

\* _deserialize_table once inner is read
TableOf(inner) ==
    IF inner.err # "none" \/ inner.val[1] # "dict" THEN inner
    ELSE DesOk(Val("dict", SetTable(inner.val[2])), inner.pos)

\* _deserialize_table: the attribute byte, then the inner value
_deserialize_table(data, pos, le) ==
    IF pos >= Len(data) THEN DesErr("IndexError")
    ELSE TableOf(_deserialize(data, pos + 1, le))

\* the str '<function type n>' for n of three digits
FunctionText(n) ==
    Val("str", <<60, 102, 117, 110, 99, 116, 105, 111, 110, 32, 116, 121, 112,
                 101, 32, 48 + (n \div 100), 48 + ((n \div 10) % 10), 48 + (n % 10),
                 62>>)

\* f"{{lambda: {body}}}": a str that the body determines
LambdaOf(body) ==
    IF body.err # "none" THEN body
    ELSE DesOk(Val("lambda", <<body.val>>), body.pos)

\* body = self._deserialize() after the namespace
LambdaBody(data, le, ns) ==
    IF ns.err # "none" THEN ns
    ELSE LambdaOf(_deserialize(data, ns.pos, le))

\* _deserialize_lambda(type_byte): a lambda (100) is its namespace and its
\* body; of any other function no byte is read
_deserialize_lambda(data, pos, le, type_byte) ==
    IF type_byte = 100 THEN LambdaBody(data, le, _read_symbol(data, pos))
    ELSE DesOk(FunctionText(type_byte), pos)

\* _deserialize(): the dispatch on the type byte
_deserialize(data, pos, le) ==
    IF pos >= Len(data) THEN DesErr("IndexError")
    ELSE LET type_byte == data[pos + 1]
         IN IF type_byte = 128 THEN _deserialize_error(data, pos + 1)
            ELSE IF type_byte > 128
            THEN _deserialize_atom(data, pos + 1, le, 256 - type_byte)
            ELSE IF type_byte = 0
            THEN _deserialize_mixed_list(data, pos + 1, le)
            ELSE IF type_byte <= 19
            THEN _deserialize_vector(data, pos + 1, le, type_byte)
            ELSE IF type_byte <= 76
            THEN _deserialize_enum_vector(data, pos + 1, le)
            ELSE IF type_byte = TABLE
            THEN _deserialize_table(data, pos + 1, le)
            ELSE IF type_byte \in {DICT, SORTED_DICT}
            THEN _deserialize_dict(data, pos + 1, le)
            ELSE IF 100 <= type_byte /\ type_byte <= 111
            THEN _deserialize_lambda(data, pos + 1, le, type_byte)
            ELSE DesErr("DeserializationError")

\* deserialize_message(raw): (msg_type, obj)
Message(msg_type, r) ==
    [err |-> r.err, msg_type |-> IF r.err = "none" THEN msg_type ELSE 0,
     val |-> r.val]

deserialize_message(raw) ==
    LET h == unpack_header(raw)
    IN IF h.err # "none"
       THEN [err |-> h.err, msg_type |-> 0, val |-> Nil]
       ELSE Message(h.msg_type, _deserialize(raw, HEADER_SIZE, h.endian = 1))

\* ---- compression (protocol/compress.py) ------------------------------------
\* a ^ b on bytes
RECURSIVE XorBits(_, _, _)
XorBits(a, b, n) ==
    IF n = 0 THEN 0
    ELSE (IF a % 2 = b % 2 THEN 0 ELSE 1) + 2 * XorBits(a \div 2, b \div 2, n - 1)

Xor(a, b) == XorBits(a, b, 8)

\* (f & i) != 0 for i a power of two
BitSet(f, i) == (f \div i) % 2 = 1

\* the loop of compress over the source y of length t with the output buffer
\* of e bytes; st holds the locals and out (out[k + 1] is Python's out[k])
RECURSIVE CompressLoop(_, _, _, _)
CompressLoop(y, t, e, st) ==
    IF ~(st.s < t) THEN st
    ELSE
    \* if i == 0: if d > e - 17: return data  /  start a new control byte
    IF st.i = 0 /\ st.d > e - 17 THEN [st EXCEPT !.abort = TRUE]
    ELSE
    LET st1 == IF st.i = 0
               THEN [st EXCEPT !.i = 1,
                               !.out = [st.out EXCEPT ![st.c + 1] = st.f % 256],
                               !.c = st.d, !.d = st.d + 1, !.f = 0]
               ELSE st
        s == st1.s
        \* the match check: no match when fewer than three bytes are left
        \* (h keeps its value), or no entry, or another first byte
        short == s > t - 3
        h == IF short THEN st1.h ELSE Xor(y[s + 1], y[s + 2])
        p == IF short THEN st1.p ELSE st1.a[h]
        g == short \/ p = 0 \/ y[s + 1] # y[p + 1]
        \* the deferred hash update of the previous literal
        a1 == IF st1.s0 > 0 THEN [st1.a EXCEPT ![st1.h0] = st1.s0] ELSE st1.a
        \* the length of the match from p + 2 / s + 2 on, at most 255
        q == IF s + 2 + 255 < t THEN s + 2 + 255 ELSE t
        ext == CHOOSE n \in 0..(q - (s + 2)) :
                  /\ \A k \in 0..(n - 1) : y[p + 2 + k + 1] = y[s + 2 + k + 1]
                  /\ (s + 2 + n = q \/ y[p + 2 + n + 1] # y[s + 2 + n + 1])
        st2 == IF g
               THEN [st1 EXCEPT !.h = h, !.p = p, !.a = a1, !.s0 = s,
                                !.h0 = h,
                                !.out = [st1.out EXCEPT ![st1.d + 1] = y[s + 1]],
                                !.d = st1.d + 1, !.s = s + 1]
               ELSE [st1 EXCEPT !.h = h, !.p = p + 2 + ext,
                                !.a = [a1 EXCEPT ![h] = s], !.s0 = 0,
                                !.f = st1.f + st1.i,
                                !.out = [st1.out EXCEPT ![st1.d + 1] = h,
                                                        ![st1.d + 2] = ext],
                                !.d = st1.d + 2, !.s = s + 2 + ext]
    IN CompressLoop(y, t, e, [st2 EXCEPT !.i = (st2.i * 2) % 256])

\* compress(data, level)
compress(data, level) ==
    LET t == Len(data)
        e == t \div 2
    IN IF level <= 0 \/ t <= 17 THEN data
       ELSE IF e < 22 THEN data
       ELSE LET st0 == [c |-> 4, d |-> 4, s |-> 8, i |-> 0, f |-> 0,
                        s0 |-> 0, h0 |-> 0, h |-> 0, p |-> 0,
                        a |-> [k \in 0..255 |-> 0],
                        out |-> PackInt(t, 4) \o Zeros(e - 4),
                        abort |-> FALSE]
                st == CompressLoop(data, t, e, st0)
                buf == [st.out EXCEPT ![st.c + 1] = st.f % 256]
            IN IF st.abort THEN data
               ELSE IF st.d >= t THEN data
               ELSE SubSeq(buf, 1, st.d)

\* the result of decompress: the n bytes of dst, of which buf holds the part
\* up to the last byte written (what follows is zero), or the exception
DecOk(n, buf) == [err |-> "none", n |-> n, buf |-> buf]
DecErr(e) == [err |-> e, n |-> 0, buf |-> <<>>]

\* bytes(dst)
FullBytes(r) == r.buf \o Zeros(r.n - Len(r.buf))

\* for m in range(n): dst[s + m] = dst[r + m]   (dst = buf, s = Len(buf))
RECURSIVE CopyFrom(_, _, _)
CopyFrom(buf, r, n) ==
    IF n = 0 THEN buf ELSE CopyFrom(Append(buf, buf[r + 1]), r + 1, n - 1)

\* while p < s - 1: aa[(dst[p] ^ dst[p + 1]) & 0xFF] = p; p += 1
RECURSIVE HashUpdate(_, _, _, _)
HashUpdate(aa, dst, p, s) ==
    IF ~(p < s - 1) THEN aa
    ELSE HashUpdate([aa EXCEPT ![Xor(dst[p + 1], dst[p + 2])] = p], dst, p + 1, s)

\* the loop of decompress over the input data; st holds the locals and the
\* written part of dst (s = Len(st.dst) at the head of every iteration)
RECURSIVE DecompressLoop(_, _, _)
DecompressLoop(data, ulen, st) ==
    LET s == Len(st.dst)
    IN
    IF ~(s < ulen) THEN st
    ELSE IF st.i = 0 /\ st.d >= Len(data) THEN st
    ELSE
    LET f == IF st.i = 0 THEN data[st.d + 1] ELSE st.f
        d == IF st.i = 0 THEN st.d + 1 ELSE st.d
        i == IF st.i = 0 THEN 1 ELSE st.i
        ref == BitSet(f, i)
    IN IF ref
       THEN \* back-reference: two bytes from aa[data[d]], then data[d + 1]
            \* more; every index must be inside data and dst
            IF d + 1 >= Len(data) \/ s + 1 >= ulen
            THEN [st EXCEPT !.err = "IndexError"]
            ELSE LET r == st.aa[data[d + 1]]
                     n == data[d + 2]
                 IN IF s + 2 + n > ulen
                    THEN [st EXCEPT !.err = "IndexError"]
                    ELSE LET dst2 == CopyFrom(st.dst, r, 2)
                             dst3 == CopyFrom(dst2, r + 2, n)
                             aa2 == HashUpdate(st.aa, dst3, st.p, s + 2)
                         IN DecompressLoop(data, ulen,
                                [st EXCEPT !.f = f, !.d = d + 2,
                                           !.i = IF i * 2 = 256 THEN 0 ELSE i * 2,
                                           !.dst = dst3, !.aa = aa2,
                                           !.p = s + 2 + n])
       ELSE \* literal byte
            IF d >= Len(data) THEN st
            ELSE LET dst2 == Append(st.dst, data[d + 1])
                     aa2 == HashUpdate(st.aa, dst2, st.p, s + 1)
                 IN DecompressLoop(data, ulen,
                        [st EXCEPT !.f = f, !.d = d + 1,
                                   !.i = IF i * 2 = 256 THEN 0 ELSE i * 2,
                                   !.dst = dst2, !.aa = aa2,
                                   !.p = IF st.p < s THEN s ELSE st.p])

\* decompress(data, header_bytes): dst is allocated with uncompressed_len
\* zero bytes; the header is put in front when one is given
decompress(data, header_bytes) ==
    IF Len(data) < 8 THEN DecOk(Len(data), data)
    ELSE
    LET le == Len(header_bytes) < 1 \/ header_bytes[1] = 1
        raw == SubSeq(data, 1, 4)
        ulen == SignedLE(IF le THEN raw ELSE Reverse(raw))
    IN IF ulen < 9 THEN DecOk(Len(data), data)
       ELSE LET hdr == IF Len(header_bytes) >= 8
                       THEN <<header_bytes[1], header_bytes[2], 0, 0>> \o
                            (IF le THEN PackInt(ulen, 4)
                                   ELSE Reverse(PackInt(ulen, 4)))
                       ELSE Zeros(8)
                st == DecompressLoop(data, ulen,
                         [f |-> 0, d |-> 4, i |-> 0, p |-> 8, dst |-> hdr,
                          aa |-> [k \in 0..255 |-> 0], err |-> "none"])
            IN IF st.err # "none" THEN DecErr(st.err)
               ELSE DecOk(ulen, st.dst)

\* ---- the receive paths ------------------------------------------------------
RecvOk(v) == [err |-> "none", val |-> v]
RecvErr(e) == [err |-> e, val |-> Nil]

\* the rest of a receive once header and payload are read: decompress (where
\* the path does it) and deserialize_message
Returned(r) == IF r.err # "none" THEN RecvErr(r.err) ELSE RecvOk(r.val)

Decoded(full_msg) == Returned(deserialize_message(full_msg))

\* full_msg = decompress(payload), then the decoding of it
Decompressed(z) ==
    IF z.err # "none" THEN RecvErr(z.err) ELSE Decoded(FullBytes(z))

\* SyncConnection.receive() on a socket that delivers stream and then the
\* peer's close: _recv_exact raises QConnError on the empty chunk; the
\* compressed flag of the header is not looked at
SyncReceive(stream) ==
    IF Len(stream) < HEADER_SIZE THEN RecvErr("ConnectionError")
    ELSE LET header_bytes == SubSeq(stream, 1, HEADER_SIZE)
             remaining == unpack_header(header_bytes).total_length - HEADER_SIZE
         IN IF remaining > 0 /\ Len(stream) < HEADER_SIZE + remaining
            THEN RecvErr("ConnectionError")
            ELSE Decoded(header_bytes \o
                         (IF remaining > 0
                          THEN SubSeq(stream, HEADER_SIZE + 1, HEADER_SIZE + remaining)
                          ELSE <<>>))

\* AsyncConnection.receive(): readexactly raises asyncio.IncompleteReadError
\* at the peer's close; a set compressed flag sends the payload, without the
\* header, through decompress
\* Subscriber.listen(): the same statements, but the IncompleteReadError of
\* the header read ends the loop quietly (listen returns)
AsyncReceive(stream, listen) ==
    IF Len(stream) < HEADER_SIZE
    THEN (IF listen THEN RecvOk(Val("stopped", <<>>))
          ELSE RecvErr("IncompleteReadError"))
    ELSE LET header_bytes == SubSeq(stream, 1, HEADER_SIZE)
             remaining == unpack_header(header_bytes).total_length - HEADER_SIZE
             payload == IF remaining > 0
                        THEN SubSeq(stream, HEADER_SIZE + 1, HEADER_SIZE + remaining)
                        ELSE <<>>
         IN IF remaining > 0 /\ Len(stream) < HEADER_SIZE + remaining
            THEN RecvErr("IncompleteReadError")
            ELSE IF header_bytes[3] # 0
            THEN Decompressed(decompress(payload, <<>>))
            ELSE Decoded(header_bytes \o payload)

Receive(kind, stream) ==
    IF kind = "sync" THEN SyncReceive(stream)
    ELSE AsyncReceive(stream, kind = "listen")

\* the frame a kdb+ peer sends for message m: m itself, or (compress.py's
\* module docstring) the header with the compressed flag and the length of
\* the frame, then the compressed payload
PeerFrame(m, z, compressed) ==
    IF compressed
    THEN <<m[1], m[2], 1, 0>> \o PackInt(HEADER_SIZE + Len(z), 4) \o z
    ELSE m

\* ---- the inputs of the wire -------------------------------------------
\* sequences over S of length 0..n
RECURSIVE SeqsUpTo(_, _)
SeqsUpTo(S, n) ==
    IF n = 0 THEN {<<>>}
    ELSE LET shorter == SeqsUpTo(S, n - 1)
         IN shorter \cup {Append(q, x) : q \in shorter, x \in S}

\* length-n sequence repeating pat
Repeat(pat, n) == [i \in 1..n |-> pat[((i - 1) % Len(pat)) + 1]]

MinLong == Val("bigint", Zeros(7) \o <<128>>)
MaxLong == Val("bigint", <<255, 255, 255, 255, 255, 255, 255, 127>>)

\* the atoms sent: booleans, integers (the ends of the signed 64-bit range
\* among them), a float (1.5), short strings and byte strings, GUIDs (the
\* zero one among them), dates around 2000-01-01, times with and without
\* microseconds
Atoms ==
    {PyBool(TRUE), PyBool(FALSE)}
    \cup {PyInt(n) : n \in {0 - 1, 0, 5}} \cup {MinLong, MaxLong}
    \cup {Val("float", <<0, 0, 0, 0, 0, 0, 248, 63>>)}
    \cup {Val("str", q) : q \in SeqsUpTo({97, 98}, MaxStr)}
    \cup {Val("bytes", q) : q \in SeqsUpTo({0, 1, 255}, MaxStr)}
    \cup {Val("guid", Zeros(GUID_SIZE)), Val("guid", Zeros(GUID_SIZE - 1) \o <<5>>)}
    \cup {Val("date", <<Q_EPOCH + n>>) : n \in {0 - 1, 0, 1}}
    \cup {Val("time", t) : t \in {<<1, 2, 3, 0>>, <<1, 2, 3, 4000>>, <<1, 2, 3, 4>>}}

\* lists of a few atoms; long runs (a string of one letter, a list of equal
\* integers), which are what compresses
Lists ==
    {Val("list", q) :
        q \in SeqsUpTo({PyBool(TRUE), PyInt(1), Val("str", <<97>>)}, MaxList)}
    \cup {Val("str", Repeat(<<97>>, n)) : n \in (MaxRun - 4)..MaxRun}
    \cup {Val("list", Repeat(<<PyInt(1)>>, n)) : n \in 4..MaxInts}

\* the typed nulls, and a value the serializer has no case for
Nulls == {QNull(tc) : tc \in NullCodes}
Unsupported == {Val("set", <<>>)}

\* raw IPC messages: a well-formed header (either byte order, flag and
\* reserved byte zero, the length of the message) and a body that repeats a
\* short pattern or the header itself, or that holds a vector of longs
RawHeader(endian, msg_type, n) ==
    <<endian, msg_type, 0, 0>> \o
    (IF endian = 1 THEN PackInt(n, 4) ELSE Reverse(PackInt(n, 4)))

\* the message of n bytes that holds a vector of zero longs: type byte,
\* attribute byte, count, items
LongVector(endian, n) ==
    LET count == PackInt((n - HEADER_SIZE - 6) \div 8, 4)
    IN RawHeader(endian, 2, n) \o <<LONG, 0>> \o
       (IF endian = 1 THEN count ELSE Reverse(count)) \o
       Zeros(n - HEADER_SIZE - 6)

RawMessages ==
    {RawHeader(endian, 2, n) \o Repeat(pat, n - HEADER_SIZE) :
        endian \in {0, 1}, n \in {18, MaxRaw - 4, MaxRaw},
        pat \in {<<0>>, <<7>>, <<1, 2>>, <<1, 2, 3>>}}
    \cup {Repeat(RawHeader(endian, 2, n), n) :
            endian \in {0, 1}, n \in {MaxRaw - 4, MaxRaw}}
    \cup {LongVector(endian, MaxRaw - 2) : endian \in {0, 1}}

\* frames of a header alone whose length field is below the header size
ShortFrames ==
    {RawHeader(endian, 2, n) : endian \in {0, 1}, n \in {0 - 1, 0, 7}}

WireInputs ==
    {[k |-> "val", v |-> v, msg_type |-> mt] :
        v \in Atoms \cup Lists \cup Nulls \cup Unsupported, mt \in 0..2}
    \cup {[k |-> "raw", v |-> Val("bytes", m), msg_type |-> m[2]] :
            m \in RawMessages \cup ShortFrames}

\* ---- the inputs of the decoder ------------------------------------------
\* the bytes of one item of type code tc: a byte that is 1, a GUID, a symbol
\* of one letter, a letter, the integer n in the width of the type
ItemBytes(tc, n) ==
    IF tc = QBOOLEAN THEN <<1>>
    ELSE IF tc = GUID THEN Zeros(GUID_SIZE - 1) \o <<n>>
    ELSE IF tc = SYMBOL THEN <<96 + n, 0>>
    ELSE IF tc = CHAR THEN <<96 + n>>
    ELSE IF ValidCode(tc) /\ TypeFmt(tc) # "none"
    THEN PackInt(n, FmtSize(TypeFmt(tc)))
    ELSE <<n>>

\* a long atom, a boolean atom, a symbol atom
LongAtom(n) == <<256 - LONG>> \o PackInt(n, 8)
BoolAtom == <<256 - QBOOLEAN, 1>>
SymbolAtom == <<256 - SYMBOL, 97, 0>>

\* a vector of count items of type code tc: type byte, attribute byte,
\* count, the bytes of the items
VectorBytes(tc, count, items) == <<tc, 0>> \o PackInt(count, 4) \o items

\* what follows the type byte of a function: a lambda is its namespace and
\* its text, a primitive one byte, a projection or a composition a count
\* and its children, the others one child
FunctionBody(type_byte) ==
    IF type_byte = 100 THEN <<0>> \o VectorBytes(CHAR, 1, <<120>>)
    ELSE IF type_byte <= 103 THEN <<1>>
    ELSE IF type_byte <= 105 THEN PackInt(1, 4) \o LongAtom(5)
    ELSE LongAtom(5)

\* what follows the type byte in a well-formed value that starts with it
\* (one byte where no value starts with it)
TagBody(type_byte) ==
    IF type_byte = 128 THEN <<98, 0>>
    ELSE IF type_byte > 128 THEN ItemBytes(256 - type_byte, 1)
    ELSE IF type_byte = 0
    THEN Tail(VectorBytes(0, 2, BoolAtom \o LongAtom(5)))
    ELSE IF type_byte <= 19
    THEN Tail(VectorBytes(type_byte, 2,
                          ItemBytes(type_byte, 1) \o ItemBytes(type_byte, 2)))
    ELSE IF type_byte <= 76 THEN Tail(VectorBytes(INT, 1, PackInt(3, 4)))
    ELSE IF type_byte = TABLE
    THEN <<0, DICT>> \o VectorBytes(SYMBOL, 1, <<97, 0>>)
         \o VectorBytes(0, 1, VectorBytes(LONG, 1, PackInt(5, 8)))
    ELSE IF type_byte \in {DICT, SORTED_DICT}
    THEN VectorBytes(SYMBOL, 1, <<97, 0>>)
         \o VectorBytes(LONG, 1, PackInt(5, 8))
    ELSE IF 100 <= type_byte /\ type_byte <= 117 THEN FunctionBody(type_byte)
    ELSE <<0>>

\* the message whose header gives the length n and that holds the bytes body
\* after it
Framed(body, n) == RawHeader(1, 2, n) \o body

\* for every type byte the message of a value that starts with it, whole and
\* cut short at every byte of the value (the header keeps the whole length)
CutFrames(value) ==
    {Framed(SubSeq(value, 1, cut), HEADER_SIZE + Len(value)) :
        cut \in 0..Len(value)}

TagFrames ==
    UNION {CutFrames(<<type_byte>> \o TagBody(type_byte)) : type_byte \in 0..255}
    \cup CutFrames(<<256 - SYMBOL, 255, 0>>)

\* the elements that follow a function in a mixed list: one or two atoms
LaterElements ==
    {<<e>> : e \in {LongAtom(10), BoolAtom, SymbolAtom}}
    \cup {<<LongAtom(10), BoolAtom>>, <<SymbolAtom, LongAtom(10)>>}

\* the bytes of the elements, one after the other
LaterBytes(later) ==
    IF Len(later) = 1 THEN later[1] ELSE later[1] \o later[2]

\* the message of the mixed list that holds a function and then the elements
FunctionList(type_byte, later) ==
    LET body == VectorBytes(0, 1 + Len(later),
                            <<type_byte>> \o FunctionBody(type_byte)
                            \o LaterBytes(later))
    IN Framed(body, HEADER_SIZE + Len(body))

FunctionLists ==
    {FunctionList(type_byte, later) :
        type_byte \in 100..117, later \in LaterElements}

DecodeInputs ==
    {[k |-> "raw", v |-> Val("bytes", m), msg_type |-> m[2]] :
        m \in TagFrames \cup FunctionLists}

\* ---- the wire: steps ---------------------------------------------------
nonWire == <<poolVars, retryVars, connVars, restVars>>

NoFrame == [bytes |-> <<>>, full |-> FALSE, comp |-> FALSE]

WireInit ==
    /\ wsrc \in WireInputs
    /\ wmsg = <<>>
    /\ wcomp = <<>>
    /\ wire = NoFrame
    /\ wkind = "none"
    /\ wres = [err |-> "none"]
    /\ wstage = "new"

\* data = self._serializer.serialize_message(obj, msg_type)
WSerialize ==
    /\ wstage = "new"
    /\ wsrc.k = "val"
    /\ LET r == serialize_message(wsrc.v, wsrc.msg_type)
       IN IF r.err = "none"
          THEN wmsg' = r.bytes /\ wstage' = "msg" /\ UNCHANGED wres
          ELSE wres' = [err |-> r.err] /\ wstage' = "failed" /\ UNCHANGED wmsg
    /\ UNCHANGED <<wsrc, wcomp, wire, wkind, nonWire>>

\* a message that some other process built
WRaw ==
    /\ wstage = "new"
    /\ wsrc.k = "raw"
    /\ wmsg' = wsrc.v[2]
    /\ wstage' = "msg"
    /\ UNCHANGED <<wsrc, wcomp, wire, wkind, wres, nonWire>>

\* msg_type, obj = deserializer.deserialize_message(data)
WDeserialize ==
    /\ wstage = "msg"
    /\ wres' = deserialize_message(wmsg)
    /\ wstage' = "decoded"
    /\ UNCHANGED <<wsrc, wmsg, wcomp, wire, wkind, nonWire>>

\* compress(data, level) with level > 0
WCompress ==
    /\ wstage = "msg"
    /\ wcomp' = compress(wmsg, 1)
    /\ wstage' = "compressed"
    /\ UNCHANGED <<wsrc, wmsg, wire, wkind, wres, nonWire>>

\* decompress(compressed, header_bytes) with the header of the message, where
\* compress did compress (it hands back data itself where it did not)
WDecompress ==
    /\ wstage = "compressed"
    /\ wcomp # wmsg
    /\ wres' = decompress(wcomp, Slice(wmsg, 0, HEADER_SIZE))
    /\ wstage' = "decompressed"
    /\ UNCHANGED <<wsrc, wmsg, wcomp, wire, wkind, nonWire>>

\* where the peer's close can fall in a frame of n bytes: before it, inside
\* the header, between header and payload, inside the payload, after it
Cuts(n) == {0, 4, HEADER_SIZE, n - 1, n} \cap (0..n)

\* the peer sends the message as one frame -- compressed when compression
\* made it smaller (little-endian peers only) -- and closes its end after
\* the first cut bytes
WPeerSend ==
    /\ wstage \in {"msg", "compressed"}
    /\ LET comp == wstage = "compressed" /\ wcomp # wmsg /\ wmsg[1] = 1
           frame == PeerFrame(wmsg, wcomp, comp)
       IN \E cut \in Cuts(Len(frame)) :
             wire' = [bytes |-> SubSeq(frame, 1, cut),
                      full |-> cut = Len(frame), comp |-> comp]
    /\ wstage' = "sent"
    /\ UNCHANGED <<wsrc, wmsg, wcomp, wkind, wres, nonWire>>

\* receive() of a SyncConnection or an AsyncConnection, or one round of
\* Subscriber.listen()
WReceive ==
    /\ wstage = "sent"
    /\ \E kind \in {"sync", "async", "listen"} :
          /\ wkind' = kind
          /\ wres' = Receive(kind, wire.bytes)
    /\ wstage' = "received"
    /\ UNCHANGED <<wsrc, wmsg, wcomp, wire, nonWire>>

WireNext ==
    \/ WSerialize \/ WRaw \/ WDeserialize \/ WCompress \/ WDecompress
    \/ WPeerSend \/ WReceive

\* the connection object is not in use
ConnOff ==
    /\ is_async = FALSE /\ tls_context = FALSE /\ c_sock = "none"
    /\ fd = "none" /\ handshaken = FALSE /\ peer_closed = FALSE
    /\ cpc = "off" /\ cop = "none" /\ cexc = "none" /\ cstage = "none"
    /\ broken = FALSE

\* nothing is on the wire
WireOff ==
    /\ wsrc = [k |-> "off"] /\ wmsg = <<>> /\ wcomp = <<>> /\ wire = NoFrame
    /\ wkind = "none" /\ wres = [err |-> "none"] /\ wstage = "off"

\* ---- the query builders (query/select.py, query/exec_.py) -------------------
\* An optional attribute is a pair <<set, value>>.
None == <<FALSE, 0>>
Some(n) == <<TRUE, n>>
Unset == <<FALSE, <<>> >>

\* the columns of the model class and the conditions callers build on them:
\* an expression is a record: Column(name), or BinOp(op, Column(col),
\* Literal(lit))
Column(name) == [op |-> "Column", col |-> name, lit |-> 0]
Columns == {Column("sym")}
Conditions == {[op |-> ">", col |-> "price", lit |-> 1]}

\* the argument lists of select(), where() and by(): up to MaxArgs values
ArgLists(S) == UNION {[1..n -> S] : n \in 0..MaxArgs}

\* SelectQuery.__init__ / ExecQuery.__init__: only ExecQuery sets _by_named
NewQuery(cls, columns) ==
    [cls |-> cls, _columns |-> columns, _where |-> <<>>, _by |-> <<>>,
     _by_named |-> IF cls = "ExecQuery" THEN <<TRUE, <<>> >> ELSE Unset,
     _limit_n |-> None, _offset_n |-> None]

\* a builder method's outcome: the objects after it, the object it returned
\* (0: none) and the exception it raised
Called(heap, ret, err) == [heap |-> heap, ret |-> ret, err |-> err]

\* Model.select(*columns): a new SelectQuery
select(heap, columns) ==
    Called(Append(heap, NewQuery("SelectQuery", columns)), Len(heap) + 1,
           "none")

where_copy(heap, o, conditions) ==
    Called(Append(heap, [heap[o] EXCEPT !._where = @ \o conditions]),
           Len(heap) + 1, "none")

\* where(*conditions): self._where.extend(conditions); return self
where(heap, o, conditions) ==
    Called([heap EXCEPT ![o]._where = @ \o conditions], o, "none")

\* by(*columns): self._by.extend(columns); return self
by(heap, o, columns) ==
    Called([heap EXCEPT ![o]._by = @ \o columns], o, "none")

\* limit(n): self._limit_n = n; return self
limit(heap, o, n) ==
    Called([heap EXCEPT ![o]._limit_n = Some(n)], o, "none")

\* offset(k): neither class defines it, so the attribute lookup raises
offset(heap, o, k) == Called(heap, 0, "AttributeError")

\* ---- compilation (query/compiler.py): a q text is its sequence of tokens ----
RECURSIVE Join(_, _)
\* sep.join(parts), each part a token sequence
Join(parts, sep) ==
    IF parts = <<>> THEN <<>>
    ELSE IF Len(parts) = 1 THEN parts[1]
    ELSE parts[1] \o <<sep>> \o Join(Tail(parts), sep)

RECURSIVE Concat(_)
\* ''.join(parts)
Concat(parts) ==
    IF parts = <<>> THEN <<>> ELSE parts[1] \o Concat(Tail(parts))

\* the token of q's symbol quote, the backtick
TICK == "'"

\* compile_expr of a Column or of a BinOp
compile_expr(expr) ==
    IF expr.op = "Column" THEN <<TICK, expr.col>>
    ELSE <<"(", expr.op, ";", TICK, expr.col, ";", ToString(expr.lit), ")">>

compile_where(clauses) ==
    LET parts == [i \in 1..Len(clauses) |-> compile_expr(clauses[i])]
    IN  IF clauses = <<>> THEN <<"()">>
        ELSE IF Len(parts) = 1 THEN <<"enlist ">> \o parts[1]
        ELSE <<"(">> \o Join(parts, ";") \o <<")">>

\* entries: pairs <<name, compiled value>>
_compile_dict(entries) ==
    IF entries = <<>> THEN <<"()">>
    ELSE IF Len(entries) = 1
    THEN <<"(enlist ", TICK, entries[1][1], ")!(enlist ">> \o entries[1][2]
             \o <<")">>
    ELSE Concat([i \in 1..Len(entries) |-> <<TICK, entries[i][1]>>])
             \o <<"!(">>
             \o Join([i \in 1..Len(entries) |-> entries[i][2]], ";")
             \o <<")">>

\* the entries of a list of Column objects
ColumnEntries(columns) ==
    [i \in 1..Len(columns) |-> <<columns[i].col, compile_expr(columns[i])>>]

compile_by(by_exprs) ==
    IF by_exprs = <<>> THEN <<"0b">> ELSE _compile_dict(ColumnEntries(by_exprs))

compile_select_columns(columns) ==
    IF columns = <<>> THEN <<"()">> ELSE _compile_dict(ColumnEntries(columns))

compile_exec_columns(columns) ==
    IF columns = <<>> THEN <<"()">>
    ELSE IF Len(columns) = 1 THEN <<TICK, columns[1].col>>
    ELSE _compile_dict(ColumnEntries(columns))

\* compile_functional_select / compile_functional_exec: ?[t;c;b;a]
compile_functional(cls, where_clauses, by_exprs, columns) ==
    <<"?[", "t", ";">> \o compile_where(where_clauses) \o <<";">>
        \o compile_by(by_exprs) \o <<";">>
        \o (IF cls = "ExecQuery" THEN compile_exec_columns(columns)
            ELSE compile_select_columns(columns))
        \o <<"]">>

\* SelectQuery.compile / ExecQuery.compile: _offset_n is not read
compile(q) ==
    LET q_str == compile_functional(q.cls, q._where, q._by, q._columns)
    IN  IF q._limit_n[1]
        THEN <<ToString(q._limit_n[2]), "#(">> \o q_str \o <<")">>
        ELSE q_str

\* ---- the builders: steps ----------------------------------------------------
NoCall == [op |-> "none", self |-> 0, arg |-> 0, ret |-> 0, err |-> "none",
           before |-> <<>>]

\* the call op on builder o (0: the model class) ended as r; arg: its
\* number argument, or how many arguments it had; before: the objects as
\* they were when it was made
Call(op, o, arg, r) ==
    /\ qobjs' = r.heap
    /\ qcall' = [op |-> op, self |-> o, arg |-> arg, ret |-> r.ret,
                 err |-> r.err, before |-> qobjs]

pgVars == <<table, pgquery, page_size, page, paged, result, pgpc, pages,
            sent>>

nonQuery == <<poolVars, retryVars, connVars, wireVars, subVars>>

QSelect(columns) ==
    /\ pgpc = "off"
    /\ Len(qobjs) < MaxObjs
    /\ Call("select", 0, Len(columns), select(qobjs, columns))
    /\ UNCHANGED <<pgVars, nonQuery>>

QWhere(o, conditions) ==
    /\ pgpc = "off"
    /\ Len(qobjs[o]._where) + Len(conditions) <= MaxClauses
    /\ Call("where", o, Len(conditions), where(qobjs, o, conditions))
    /\ UNCHANGED <<pgVars, nonQuery>>

QBy(o, columns) ==
    /\ pgpc = "off"
    /\ Len(qobjs[o]._by) + Len(columns) <= MaxClauses
    /\ Call("by", o, Len(columns), by(qobjs, o, columns))
    /\ UNCHANGED <<pgVars, nonQuery>>

QLimit(o, n) ==
    /\ pgpc = "off"
    /\ Call("limit", o, n, limit(qobjs, o, n))
    /\ UNCHANGED <<pgVars, nonQuery>>

QOffset(o, k) ==
    /\ pgpc = "off"
    /\ Call("offset", o, k, offset(qobjs, o, k))
    /\ UNCHANGED <<pgVars, nonQuery>>

\* ---- pagination (pagination.py) ---------------------------------------------
\* _clone_with_page: a new SelectQuery with the query's columns, then its
\* clauses copied attribute by attribute; reading an attribute the query
\* does not have raises
_clone_with_page(query, page_no, size_) ==
    IF ~query._by_named[1] THEN [err |-> "AttributeError", clone |-> query]
    ELSE [err |-> "none",
          clone |-> [NewQuery("SelectQuery", query._columns) EXCEPT
                         !._where = query._where,
                         !._by = query._by,
                         !._by_named = query._by_named,
                         !._offset_n = Some(page_no * size_),
                         !._limit_n = Some(size_)]]

\* the number a token spells
Num(token) == CHOOSE n \in 0..(MaxPageSize * (MaxPages + 2)) : ToString(n) = token

RECURSIVE Server(_, _)
\* Session.exec sends the compiled text and the server evaluates it on its
\* rows: n#( ) keeps the first n rows of what it wraps, k_( ) drops the
\* first k, and the select itself gives the rows
Server(text, rows) ==
    IF Len(text) > 2 /\ text[2] = "#("
    THEN LET inner == Server(SubSeq(text, 3, Len(text) - 1), rows)
         IN  SubSeq(inner, 1, Min(Num(text[1]), Len(inner)))
    ELSE IF Len(text) > 2 /\ text[2] = "_("
    THEN LET inner == Server(SubSeq(text, 3, Len(text) - 1), rows)
         IN  SubSeq(inner, Min(Num(text[1]), Len(inner)) + 1, Len(inner))
    ELSE rows

builderVars == <<qobjs, qcall>>

\* the first next() on paginate(session, query, page_size): page = 0
PgStart(o, size_) ==
    /\ pgpc = "off"
    /\ pgquery' = o /\ page_size' = size_ /\ page' = 0
    /\ pgpc' = "clone"
    /\ UNCHANGED <<table, paged, result, pages, sent, builderVars, nonQuery>>

\* paged = _clone_with_page(query, page, page_size)
PgClone ==
    /\ pgpc = "clone"
    /\ LET r == _clone_with_page(qobjs[pgquery], page, page_size)
       IN  IF r.err # "none"
           THEN pgpc' = "raised" /\ UNCHANGED paged
           ELSE pgpc' = "exec" /\ paged' = r.clone
    /\ UNCHANGED <<table, pgquery, page_size, page, result, pages, sent,
                   builderVars, nonQuery>>

\* result = session.exec(paged); an empty result ends the generator, any
\* other is yielded
PgExec ==
    /\ pgpc = "exec"
    /\ sent' = Append(sent, compile(paged))
    /\ result' = Server(compile(paged), table)
    /\ IF Len(result') = 0
       THEN pgpc' = "done" /\ UNCHANGED pages
       ELSE pgpc' = "yield" /\ pages' = Append(pages, result')
    /\ UNCHANGED <<table, pgquery, page_size, page, paged, builderVars,
                   nonQuery>>

\* the consumer asks for the next page: a short page ends the generator,
\* a full one moves to the next page
PgResume ==
    /\ pgpc = "yield"
    /\ page < MaxPages
    /\ IF Len(result) < page_size
       THEN pgpc' = "done" /\ UNCHANGED page
       ELSE pgpc' = "clone" /\ page' = page + 1
    /\ UNCHANGED <<table, pgquery, page_size, paged, result, pages, sent,
                   builderVars, nonQuery>>

PaginateOff ==
    /\ table = <<>> /\ pgquery = 0 /\ page_size = 0 /\ page = 0
    /\ paged = NewQuery("SelectQuery", <<>>) /\ result = <<>>
    /\ pgpc = "off" /\ pages = <<>> /\ sent = <<>>

QueryOff == qobjs = <<>> /\ qcall = NoCall /\ PaginateOff

\* no subscriber exists
SubOff ==
    /\ _conn = "none" /\ _running = FALSE /\ lpc = "off" /\ reader = FALSE
    /\ lmsg = "none" /\ _buffer = <<>> /\ eof = FALSE /\ tail = "none"
    /\ closing = FALSE /\ calls = 0 /\ sends = 0 /\ stopped = FALSE

RestOff == QueryOff /\ SubOff


\* ---- the subscriber (subscription.py) ---------------------------------------
nonSub == <<poolVars, retryVars, connVars, wireVars, queryVars>>

\* what a frame from the publisher decodes to: a list of three (function
\* name, table name, data), a list of two or of more than three (table name,
\* data, ...), a value that is no such list, or nothing (its decoding raises)
FrameKinds == {"three", "two", "other", "bad"}

\* what of a frame came before the stream's end: nothing, a part of its
\* header, or its header and a part of its payload
Tails == {"none", "header", "payload"}

\* Subscriber(engine, callback), then nothing, connect(), or connect() and a
\* close() of the connection itself (its _reader is None)
SubInit ==
    /\ _conn \in {"none", "open", "shut"}
    /\ _running = FALSE
    /\ lpc = "idle"
    /\ reader = FALSE
    /\ lmsg = "none"
    /\ _buffer = <<>>
    /\ eof = (_conn # "open")
    /\ tail = "none"
    /\ closing = FALSE
    /\ calls = 0
    /\ sends = 0
    /\ stopped = FALSE

\* listen() up to the loop: QConnError without a connection
Listen ==
    /\ lpc = "idle"
    /\ IF _conn = "none"
       THEN lpc' = "raised" /\ UNCHANGED <<_running, reader>>
       ELSE /\ _running' = TRUE
            /\ reader' = (_conn = "open")
            /\ lpc' = "loop"
    /\ UNCHANGED <<_conn, lmsg, _buffer, eof, tail, closing, calls, sends, stopped,
                   nonSub>>

\* while self._running and reader is not None
LoopTest ==
    /\ lpc = "loop"
    /\ lpc' = IF _running /\ reader THEN "header" ELSE "returned"
    /\ UNCHANGED <<_conn, _running, reader, lmsg, _buffer, eof, tail, closing,
                   calls, sends, stopped, nonSub>>

\* header_bytes = await reader.readexactly(HEADER_SIZE): it waits for the
\* eight bytes; at the stream's end with fewer it raises IncompleteReadError,
\* which ends the loop
ReadHeader ==
    /\ lpc = "header"
    /\ \/ /\ _buffer # <<>>
          /\ lmsg' = Head(_buffer)
          /\ _buffer' = Tail(_buffer)
          /\ lpc' = "payload"
          /\ UNCHANGED <<_running, tail>>
       \/ /\ _buffer = <<>> /\ eof /\ tail = "payload"
          /\ lmsg' = "cut"
          /\ tail' = "none"
          /\ lpc' = "payload"
          /\ UNCHANGED <<_running, _buffer>>
       \/ /\ _buffer = <<>> /\ eof /\ tail # "payload"
          /\ _running' = FALSE
          /\ lpc' = "returned"
          /\ UNCHANGED <<lmsg, _buffer, tail>>
    /\ UNCHANGED <<_conn, reader, eof, closing, calls, sends, stopped, nonSub>>

\* the rest of the round up to the callback's call: the payload (an
\* IncompleteReadError of it is not caught), the decoding, the dispatch on
\* the result
ReadPayload ==
    /\ lpc = "payload"
    /\ IF lmsg \in {"cut", "bad"}
       THEN lpc' = "raised" /\ UNCHANGED calls
       ELSE IF lmsg \in {"three", "two"}
       THEN lpc' = "callback" /\ calls' = calls + 1
       ELSE lpc' = "loop" /\ UNCHANGED calls
    /\ lmsg' = "none"
    /\ UNCHANGED <<_conn, _running, reader, _buffer, eof, tail, closing, sends,
                   stopped, nonSub>>

\* cb_result = self._callback(table_name, data), awaited where it is a
\* coroutine: it returns or it raises
Callback(ok) ==
    /\ lpc = "callback"
    /\ lpc' = IF ok THEN "loop" ELSE "raised"
    /\ UNCHANGED <<_conn, _running, reader, lmsg, _buffer, eof, tail, closing,
                   calls, sends, stopped, nonSub>>

\* listen() is inside its loop
Listening == lpc \in {"loop", "header", "payload", "callback"}

\* stop()
Stop ==
    /\ _running' = FALSE
    /\ stopped' = (stopped \/ Listening)
    /\ UNCHANGED <<_conn, lpc, reader, lmsg, _buffer, eof, tail, closing, calls,
                   sends, nonSub>>

\* close() up to its await: stop(), and the connection's close() up to
\* wait_closed() -- the writer's close ends the stream, what is buffered
\* stays readable; a connection without writer has nothing to wait for
SubClose ==
    /\ ~closing
    /\ _running' = FALSE
    /\ stopped' = (stopped \/ Listening)
    /\ IF _conn = "open"
       THEN closing' = TRUE /\ eof' = TRUE /\ UNCHANGED _conn
       ELSE _conn' = "none" /\ UNCHANGED <<closing, eof>>
    /\ UNCHANGED <<lpc, reader, lmsg, _buffer, tail, calls, sends, nonSub>>

\* close() after wait_closed(): self._conn = None
SubCloseDone ==
    /\ closing
    /\ closing' = FALSE
    /\ _conn' = "none"
    /\ UNCHANGED <<_running, lpc, reader, lmsg, _buffer, eof, tail, calls, sends,
                   stopped, nonSub>>

\* the publisher sends a frame
ServerSend(kind) ==
    /\ _conn = "open" /\ ~eof
    /\ sends < MaxMsgs
    /\ _buffer' = Append(_buffer, kind)
    /\ sends' = sends + 1
    /\ UNCHANGED <<_conn, _running, lpc, reader, lmsg, eof, tail, closing,
                   calls, stopped, nonSub>>

\* the publisher closes the connection, inside a frame or between two
SubPeerClose(t) ==
    /\ _conn = "open" /\ ~eof
    /\ eof' = TRUE
    /\ tail' = t
    /\ UNCHANGED <<_conn, _running, lpc, reader, lmsg, _buffer, closing, calls,
                   sends, stopped, nonSub>>

\* ---- specifications --------------------------------------------------------
Init == PoolInit /\ RetryOff /\ ConnOff /\ WireOff /\ RestOff

Next ==
    \/ \E t \in Threads :
        \/ AcqStart(t) \/ AcqGet(t) \/ AcqLock(t) \/ AcqAdd(t) \/ AcqInc(t)
        \/ AcqGet2(t) \/ AcqWait(t) \/ AcqTimeout(t) \/ AcqCheck(t)
        \/ Use(t) \/ CloseConn(t)
        \/ RelStart(t) \/ RelPut(t) \/ RelDec(t)
        \/ CloseStart(t) \/ CloseDrain(t) \/ CloseZero(t)
    \/ \E c \in Conns : PeerClose(c)

Spec == Init /\ [][Next]_vars

\* the pool with callers that also close connections they have released
NextStale == Next \/ \E c \in Conns : CloseIdle(c)

SpecStale == Init /\ [][NextStale]_vars

\* ... and with tasks that are cancelled inside acquire
NextCancel == NextStale \/ \E t \in Threads : AcqCancel(t)

SpecCancel == Init /\ [][NextCancel]_vars

\* the pool is not in use: a SyncPool of one connection, untouched
PoolOff ==
    /\ pasync = FALSE /\ max_size = 1 /\ check_on_acquire = TRUE
    /\ closed = FALSE /\ size = 0 /\ pool = <<>> /\ lock = 0
    /\ sock = [c \in Conns |-> "none"]
    /\ peerGone = [c \in Conns |-> FALSE]
    /\ pc = [t \in Threads |-> "off"]
    /\ conn = [t \in Threads |-> 0]
    /\ res = [t \in Threads |-> "none"]
    /\ cur = 0
    /\ failed = {} /\ idleStale = {}
    /\ relWait = [t \in Threads |-> 0]
    /\ closeDone = FALSE
    /\ made = [t \in Threads |-> 0]

RetryInitAll == RetryInit /\ PoolOff /\ ConnOff /\ WireOff /\ RestOff

RetryNext == RetryCall \/ RetryReconnect \/ RetrySleep \/ RetryFallThrough

SpecRetry == RetryInitAll /\ [][RetryNext]_vars

ConnInitAll == ConnInit /\ PoolOff /\ RetryOff /\ WireOff /\ RestOff

SpecConn == ConnInitAll /\ [][ConnNext]_vars

WireInitAll == WireInit /\ PoolOff /\ RetryOff /\ ConnOff /\ RestOff

SpecWire == WireInitAll /\ [][WireNext]_vars

\* the decoder alone: a message that some other process built is decoded
DecodeInit ==
    /\ wsrc \in DecodeInputs
    /\ wmsg = <<>>
    /\ wcomp = <<>>
    /\ wire = NoFrame
    /\ wkind = "none"
    /\ wres = [err |-> "none"]
    /\ wstage = "new"

DecodeInitAll == DecodeInit /\ PoolOff /\ RetryOff /\ ConnOff /\ RestOff

DecodeNext == WRaw \/ WDeserialize

SpecDecode == DecodeInitAll /\ [][DecodeNext]_vars

QueryInit == qobjs = <<>> /\ qcall = NoCall /\ PaginateOff

QueryInitAll ==
    QueryInit /\ PoolOff /\ RetryOff /\ ConnOff /\ WireOff /\ SubOff

QueryNext ==
    \/ \E columns \in ArgLists(Columns) : QSelect(columns)
    \/ \E o \in 1..Len(qobjs) :
        \/ \E conditions \in ArgLists(Conditions) : QWhere(o, conditions)
        \/ \E columns \in ArgLists(Columns) : QBy(o, columns)
        \/ \E n \in 0..MaxNum : QLimit(o, n)
        \/ \E k \in 0..MaxNum : QOffset(o, k)

SpecQuery == QueryInitAll /\ [][QueryNext]_vars

\* the queries handed to paginate: of either class, with or without a
\* condition
PgQueries ==
    {[NewQuery(cls, columns) EXCEPT !._where = conditions] :
        cls \in {"SelectQuery", "ExecQuery"},
        columns \in ArgLists(Columns),
        conditions \in ArgLists(Conditions)}

\* a query exists and the server holds a table of up to MaxRows rows
PaginateInit ==
    /\ \E q \in PgQueries : qobjs = <<q>>
    /\ qcall = NoCall
    /\ \E n \in 0..MaxRows : table = [i \in 1..n |-> i]
    /\ pgquery = 0 /\ page_size = 0 /\ page = 0
    /\ paged = NewQuery("SelectQuery", <<>>) /\ result = <<>>
    /\ pgpc = "off" /\ pages = <<>> /\ sent = <<>>

PaginateInitAll ==
    PaginateInit /\ PoolOff /\ RetryOff /\ ConnOff /\ WireOff /\ SubOff

PaginateNext ==
    \/ \E size_ \in 1..MaxPageSize : PgStart(1, size_)
    \/ PgClone \/ PgExec \/ PgResume

SpecPaginate == PaginateInitAll /\ [][PaginateNext]_vars

\* a subscriber, its publisher, and the callers of stop() and close()
SubInitAll ==
    SubInit /\ PoolOff /\ RetryOff /\ ConnOff /\ WireOff /\ QueryOff

\* the steps of listen() past its call
ListenStep ==
    LoopTest \/ ReadHeader \/ ReadPayload \/ \E ok \in BOOLEAN : Callback(ok)

SubNext ==
    \/ Listen \/ ListenStep
    \/ Stop \/ SubClose \/ SubCloseDone
    \/ \E kind \in FrameKinds : ServerSend(kind)
    \/ \E t \in Tails : SubPeerClose(t)

\* the event loop runs a coroutine that can go on: listen() takes its next
\* step, and the writer's close completes.  Nothing makes the publisher send
\* or close, or a caller call stop() or close()
SpecListen ==
    /\ SubInitAll
    /\ [][SubNext]_vars
    /\ WF_vars(ListenStep)
    /\ WF_vars(SubCloseDone)

\* ---- claims about the pools -----------------------------------------------

\* C1: in every reachable state of a SyncPool, under any interleaving of
\* acquire, release and close, 0 <= size <= max_size.
C1_SizeInRange == ~pasync => (0 <= size /\ size <= max_size)

\* C2: the idle queue never holds a broken connection: none that is closed
\* and none on which an earlier send/receive failed because the peer had
\* closed the socket.
C2_NoBrokenIdle ==
    \A i \in 1..Len(pool) : is_open(pool[i]) /\ pool[i] \notin failed

\* C3: a SyncPool.acquire that blocked on the full pool and saw a release
\* (of an open or of a dead connection) while it waited does not end in
\* PoolExhaustedError.
C3_ReleaseServesWaiter ==
    \A t \in Threads :
        (~pasync /\ res[t] = "PoolExhaustedError") => relWait[t] # RelDone

\* C4: no connection is held by two callers at once, and no connection is
\* both in the idle queue and held by a caller.
C4_ExclusiveOwnership ==
    /\ \A t, u \in Threads : (t # u /\ conn[t] # 0) => conn[t] # conn[u]
    /\ \A t \in Threads : conn[t] # 0 => ~InPool(conn[t])
    /\ \A i, j \in 1..Len(pool) : i # j => pool[i] # pool[j]

\* C4 witness: two callers hold (different) connections at the same time
C4_Witness ==
    \E t, u \in Threads :
        /\ t # u
        /\ pc[t] = "holding" /\ pc[u] = "holding"
        /\ conn[t] # conn[u]

\* C5: with check_on_acquire, a connection whose server side closed the
\* socket while it sat in the idle queue is never handed to a caller.
C5_NoStaleHandedOut ==
    check_on_acquire =>
        \A t \in Threads : pc[t] = "holding" => conn[t] \notin idleStale

\* C6: once close() has returned, a caller that starts acquire gets
\* PoolError without entering the acquire path (so it opens no connection),
\* and a caller that starts release has its connection closed and not
\* enqueued; SyncPool and AsyncPool alike.
C6_ClosedPoolRejects ==
    [][closeDone =>
        \A t \in Threads :
            /\ pc[t] = "idle" =>
                   /\ pc'[t] \in {"idle", "c_drain"}
                   /\ (pc'[t] = "idle" /\ res'[t] # res[t]) =>
                          (res'[t] = "PoolError" /\ sock' = sock /\ pool' = pool)
            /\ (pc[t] = "holding" /\ pc'[t] # "holding") =>
                   /\ pc'[t] = "idle"
                   /\ sock'[conn[t]] = "none"
                   /\ pool' = pool
                   /\ conn'[t] = 0]_vars

\* C6 witness: close() has returned, an acquire has been refused and another
\* caller still holds a connection it is going to release
C6_Witness ==
    /\ closeDone
    /\ \E t, u \in Threads :
           /\ res[t] = "PoolError"
           /\ pc[u] = "holding" /\ is_open(conn[u])
\* the connections callers hold: acquired and not yet released
Held == {t \in Threads : pc[t] \in {"holding", "r_put", "r_dec"}}

\* no acquire, release or close is in progress
Quiescent == \A t \in Threads : pc[t] \in {"idle", "holding"}

\* C24: whenever no pool call is in progress on an open SyncPool, size is the
\* number of idle connections plus the number of held ones; so too after an
\* acquire() that raised because opening a new or a replacement connection
\* failed
C24_SizeIsIdlePlusHeld ==
    (~pasync /\ ~closed /\ Quiescent) =>
        size = Len(pool) + Cardinality(Held)

\* C25: close() is safe to call concurrently with acquire and release, and
\* is idempotent: once close() and every call that overlapped it have
\* returned, each connection ever created is closed or held by a caller (no
\* open connection sits in the idle queue of the closed pool), and a second
\* close() changes nothing
C25_CloseLeavesNothingOpen ==
    /\ (closeDone /\ Quiescent) =>
           \A c \in Conns :
               is_open(c) => \E t \in Threads : pc[t] = "holding" /\ conn[t] = c
    /\ \A t \in Threads :
           (/\ closeDone
            /\ pc[t] \in {"c_drain", "c_zero"}
            /\ \A u \in Threads \ {t} : pc[u] \in {"idle", "holding"}) =>
               pool = <<>> /\ size = 0

\* C26: the thread that creates a new connection inside acquire() receives
\* that connection, and acquire() ends only by returning a connection, by
\* raising PoolError or PoolExhaustedError, or by propagating the error of a
\* failed open: never with the queue's internal Empty
C26_CreatorGetsItsConnection ==
    /\ [](\A t \in Threads :
              res[t] \in {"none", "Conn", "PoolError", "PoolExhaustedError",
                          "ConnectionError"})
    /\ [][\A t \in Threads :
              pc[t] = "a_get2" =>
                  \/ pc'[t] = "a_get2"
                  \/ pc'[t] = "holding" /\ conn'[t] = made[t]]_vars

\* C27: if an AsyncPool.acquire() is cancelled at any suspension point
\* (waiting for the lock, opening a new connection, closing a dead
\* connection or opening its replacement, waiting on the idle queue), then
\* afterwards size is still the number of idle plus held connections, and no
\* opened connection is left outside both the idle queue and a caller's hands
C27_CancelledAcquireLeaksNothing ==
    \A t \in Threads :
        (pasync /\ res[t] = "CancelledError" /\ pc[t] = "idle") =>
            /\ (~closed /\ Quiescent) => size = Len(pool) + Cardinality(Held)
            /\ \A c \in Conns : sock[c] = "leaked" => ~Free(c)

\* ---- claims about retry and the session ---------------------------------

CallAt(i) == log[i].e = "call"
AllCallsRetryable ==
    \A i \in 1..Len(log) :
        CallAt(i) => (log[i].v # "ok" /\ Bases(log[i].v) \cap retryable_errors # {})

\* C7: with max_retries = n >= 0 the callable is invoked at most n+1 times; a
\* success on invocation k ends the call with that result after exactly k
\* invocations; n+1 retryable failures end it by re-raising the last error
\* after exactly n+1 invocations.
C7_AttemptBudget ==
    max_retries >= 0 =>
        /\ Calls <= max_retries + 1
        /\ \A i \in 1..Len(log) :
              (CallAt(i) /\ log[i].v = "ok") =>
                  /\ i = Len(log)
                  /\ rpc = "returned"
                  /\ out.call = Calls
        /\ (Calls = max_retries + 1 /\ AllCallsRetryable) =>
              /\ rpc = "raised"
              /\ out.by = "func"
              /\ out.call = max_retries + 1
              /\ out.exc = log[Len(log)].v

\* C7 witness: a policy with retries whose budget was used up by retryable
\* failures
C7_Witness ==
    /\ max_retries >= 1
    /\ Calls = max_retries + 1
    /\ AllCallsRetryable
    /\ rpc = "raised"

\* C8: an error of the callable that the policy does not list as retryable
\* leaves retry at once: it is the last thing that happened (no further
\* invocation, no reconnect, no sleep) and it is the error raised.
C8_NonRetryablePropagates ==
    \A i \in 1..Len(log) :
        (/\ CallAt(i)
         /\ log[i].v # "ok"
         /\ Bases(log[i].v) \cap retryable_errors = {}) =>
            /\ i = Len(log)
            /\ rpc = "raised"
            /\ out.by = "func"
            /\ out.exc = log[i].v

\* C8 witness: a non-retryable error raised on a later attempt, after a
\* retry with reconnect and sleep
C8_Witness ==
    /\ attempt >= 1
    /\ has_hook
    /\ rpc = "raised"
    /\ out.by = "func"
    /\ Bases(out.exc) \cap retryable_errors = {}

\* C9: a Session (policy with max_retries = n, connection errors retryable)
\* whose query fails with a connection error while the server refuses the
\* next j < n connection attempts and accepts the later ones still returns
\* the query result (the query itself meeting no codec error).
C9_ReconnectFailuresConsumeBudget ==
    (/\ session
     /\ "ConnectionError" \in retryable_errors
     /\ rpc \in {"returned", "raised"}
     /\ Len(log) > 0
     /\ log[1].v = "ConnectionError"
     /\ qfault = "none"
     /\ outage < max_retries) => rpc = "returned"

\* C10: the k-th sleep (k from 0) is min(base_delay * backoff_factor^k,
\* max_delay); with backoff_factor >= 1 the sleeps do not decrease; none
\* exceeds max_delay; with a reconnect hook every sleep directly follows
\* exactly one hook call, which directly follows the failed invocation, and
\* every further invocation directly follows a sleep.
C10_Backoff ==
    /\ \A k \in 1..Len(sleeps) :
          /\ sleeps[k] = Min(base_delay * Pow(backoff_factor, k - 1), max_delay)
          /\ sleeps[k] <= max_delay
    /\ backoff_factor >= 1 =>
          \A k \in 1..(Len(sleeps) - 1) : sleeps[k] <= sleeps[k + 1]
    /\ \A i \in 1..Len(log) :
          /\ log[i].e = "sleep" =>
                IF has_hook
                THEN i > 2 /\ log[i - 1].e = "reconnect" /\ CallAt(i - 2)
                ELSE i > 1 /\ CallAt(i - 1)
          /\ (CallAt(i) /\ i > 1) => log[i - 1].e = "sleep"
          /\ log[i].e = "reconnect" => (has_hook /\ i > 1 /\ CallAt(i - 1))
    /\ Len(sleeps) = Cardinality({i \in 1..Len(log) : log[i].e = "sleep"})

\* C10 witness: two retries with a hook, the second sleep longer than the
\* first and cut off at max_delay
C10_Witness ==
    /\ has_hook
    /\ Len(sleeps) = 2
    /\ sleeps[1] < sleeps[2]
    /\ sleeps[2] = max_delay
    /\ base_delay * backoff_factor > max_delay

\* ---- claims about one connection ----------------------------------------

\* C11: when open() of a SyncConnection or AsyncConnection fails at any stage
\* (TCP connect, TLS, sending the handshake, reading or parsing the reply),
\* the error reaches the caller with the socket closed and is_open False: no
\* socket is left open.
C11_OpenFailureClosesSocket ==
    (/\ cpc = "idle"
     /\ cop = "open"
     /\ cexc \notin {"none", "ok", "CancelledError"}) =>
        (~conn_is_open /\ fd # "open")

\* C11 witness: the open of an AsyncConnection failed while reading the
\* handshake reply, after the socket had been connected
C11_Witness ==
    /\ is_async
    /\ cpc = "idle"
    /\ cop = "open"
    /\ cstage = "hs_recv"
    /\ cexc = "AuthenticationError"
    /\ fd = "closed"

\* C12: after an AsyncConnection.open() cancelled at one of its awaits the
\* socket is closed and is_open is False, and an AsyncConnection at rest
\* reports is_open True only if its handshake has completed.
C12_CancelledOpenClosesSocket ==
    (is_async /\ cpc = "idle") =>
        /\ conn_is_open => handshaken
        /\ (cop = "open" /\ cexc = "CancelledError") =>
               (~conn_is_open /\ fd # "open")

\* C13: after a send or receive on the connection failed with a
\* connection-level error, is_open is False (until it is opened again).
C13_FailedIoLeavesNotReady ==
    (cpc = "idle" /\ broken) => ~conn_is_open

\* C16: when Session.raw / exec / call fails with a wire-codec error
\* (SerializationError or DeserializationError), the session's connection is
\* closed by the time the error reaches the caller.
C16_CodecErrorClosesConnection ==
    (/\ session
     /\ rpc = "raised"
     /\ out.exc \in {"SerializationError", "DeserializationError"}) =>
        sconn = "closed"

\* ---- claims about the wire ------------------------------------------------

\* C14: when the peer closes the socket before a complete frame has arrived
\* (inside the 8-byte header or inside the payload), receive() of a
\* SyncConnection and of an AsyncConnection raises the library's
\* ConnectionError (or a subclass of it).
C14_ShortReadRaisesConnectionError ==
    (wstage = "received" /\ wkind \in {"sync", "async"} /\ ~wire.full) =>
        "ConnectionError" \in Bases(wres.err)

\* C15: receiving the frame of a message sent compressed (flag set in the
\* header, payload compressed) yields what receiving the same message sent
\* uncompressed yields, in SyncConnection.receive, AsyncConnection.receive
\* and Subscriber.listen alike.
C15_CompressedFrameDecodesAlike ==
    (wstage = "received" /\ wire.comp /\ wire.full) =>
        wres = Receive(wkind, wmsg)

\* the values of the supported types: booleans, integers, floats, strings,
\* byte strings, GUIDs, dates, times, and the lists of them
Supported(obj) ==
    obj[1] \in {"bool", "int", "bigint", "float", "str", "bytes", "guid",
                "date", "time", "list"}

\* C17: for every supported primitive value v and every list of such values,
\* serialize_message(v, msg_type) succeeds and deserialize_message of its
\* result returns the message type passed in and a value equal to v.
C17_SerializeRoundTrip ==
    (wsrc.k = "val" /\ Supported(wsrc.v)) =>
        /\ wstage # "failed"
        /\ wstage = "decoded" =>
               wres = [err |-> "none", msg_type |-> wsrc.msg_type,
                       val |-> wsrc.v]

\* C18: for every type code c of the typed-null table, serializing QNull(c)
\* and deserializing the message succeeds and yields QNull(c).
C18_NullRoundTrip ==
    (wsrc.k = "val" /\ wsrc.v[1] = "QNull") =>
        /\ wstage # "failed"
        /\ wstage = "decoded" =>
               wres = [err |-> "none", msg_type |-> wsrc.msg_type,
                       val |-> wsrc.v]

\* C19: for every IPC message m of at least 18 bytes that compress(m, level)
\* with level > 0 does compress (its result differs from m),
\* decompress(compress(m), header of m) is m -- messages whose body repeats
\* the bytes of the header included.
C19_CompressRoundTrip ==
    (wstage = "decompressed" /\ Len(wmsg) >= 18 /\ wcomp # wmsg) =>
        /\ wres.err = "none"
        /\ wres.n = Len(wmsg)
        /\ FullBytes(wres) = wmsg

\* C20: a received frame whose header has a total_length below 8 is rejected
\* as malformed: receive() raises a qorm error.
C20_ShortLengthRejected ==
    (/\ wstage = "received"
     /\ wkind \in {"sync", "async"}
     /\ Len(wire.bytes) >= HEADER_SIZE
     /\ unpack_header(wire.bytes).total_length < HEADER_SIZE) =>
        "QormError" \in Bases(wres.err)
\* ---- claims about the query builders -------------------------------------
\* the builder a call was made on, as it was before the call and as it is now
Before == qcall.before[qcall.self]
After == qobjs[qcall.self]

IsPrefix(s, t) == Len(s) <= Len(t) /\ SubSeq(t, 1, Len(s)) = s

Contains(text, sub) ==
    \E i \in 0..(Len(text) - Len(sub)) : SubSeq(text, i + 1, i + Len(sub)) = sub

\* C22: offset(k) wraps the compiled query in the drop operator k_( ),
\* limit(n) wraps it in the take operator n#( ), and both compose; a query
\* with only a limit has no drop wrapper and one with only an offset no take
C22_OffsetWrapsInDrop ==
    /\ qcall.op = "offset" =>
           /\ qcall.err = "none"
           /\ qcall.ret # 0
           /\ Contains(compile(qobjs[qcall.ret]),
                       <<ToString(qcall.arg), "_(">>)
           /\ qobjs[qcall.ret]._limit_n[1] =>
                  Contains(compile(qobjs[qcall.ret]),
                           <<ToString(qobjs[qcall.ret]._limit_n[2]), "#(">>)
           /\ ~qobjs[qcall.ret]._limit_n[1] =>
                  ~Contains(compile(qobjs[qcall.ret]), <<"#(">>)
    /\ qcall.op = "limit" =>
           /\ qcall.err = "none"
           /\ Contains(compile(qobjs[qcall.ret]),
                       <<ToString(qcall.arg), "#(">>)
           /\ ~qobjs[qcall.ret]._offset_n[1] =>
                  ~Contains(compile(qobjs[qcall.ret]), <<"_(">>)
\* ---- claims about pagination ------------------------------------------------
\* C23: paginate() over a query of N rows with page_size p >= 1 terminates:
\* it asks for page i with offset i*p and limit p, yields the non-empty pages
\* in order, stops after the first empty or short page, and the pages it
\* yielded are together exactly the N rows
C23_PaginateYieldsAllRows ==
    /\ pgpc # "raised"
    /\ Len(sent) <= (Len(table) \div (IF page_size = 0 THEN 1 ELSE page_size)) + 1
    /\ \A i \in 1..Len(sent) :
           /\ Contains(sent[i], <<ToString(page_size), "#(">>)
           /\ i > 1 => Contains(sent[i], <<ToString((i - 1) * page_size), "_(">>)
    /\ \A i \in 1..Len(pages) : pages[i] # <<>>
    /\ pgpc = "done" => Concat(pages) = table
\* ---- claims about the decoder ---------------------------------------------
\* the message is shorter than the length its header gives
Truncated(raw) == Len(raw) < unpack_header(raw).total_length

\* C28: whatever type byte a value starts with and wherever its frame is cut,
\* deserialize_message returns a value, raises QError (type byte 128 only) or
\* raises DeserializationError -- no other exception; and of a frame that
\* ends before its value is complete it raises DeserializationError, it
\* returns no value.
C28_DecodeFailsWithDeserializationError ==
    (wstage = "decoded" /\ wsrc.k = "raw") =>
        /\ wres.err \in {"none", "QError", "DeserializationError"}
        /\ wres.err = "QError" => wmsg[HEADER_SIZE + 1] = 128
        /\ Truncated(wmsg) => wres.err = "DeserializationError"

\* what the bytes of one value decode to when they are a message of their own
Alone(element) ==
    deserialize_message(Framed(element, HEADER_SIZE + Len(element)))

\* C29: a mixed list that holds a function (type byte 100..117) and further
\* elements after it decodes without error to a list of its declared count,
\* and every element after the function is the value that its bytes decode
\* to on their own: decoding the function consumed exactly its bytes.
C29_FunctionInListKeepsLaterElements ==
    \A type_byte \in 100..117, later \in LaterElements :
        (wstage = "decoded" /\ wmsg = FunctionList(type_byte, later)) =>
            /\ wres.err = "none"
            /\ wres.val[1] = "list"
            /\ Len(wres.val[2]) = 1 + Len(later)
            /\ \A i \in 1..Len(later) :
                  wres.val[2][1 + i] = Alone(later[i]).val

\* ---- claims about the subscriber --------------------------------------------
\* C30: listen() blocks until stop() is called or the connection is closed:
\* it returns only once stop() was called or the stream is at its end (or
\* there was no reader); once stop() was called while listen() waits for the
\* next message, listen() ends in time whether or not the publisher sends
\* another message; and after listen() returned the callback is not called.
C30_ListenEndsAfterStop ==
    /\ [](lpc = "returned" => (stopped \/ eof \/ ~reader))
    /\ (stopped /\ lpc = "header") ~> (lpc \in {"returned", "raised"})
    /\ [][lpc = "returned" => calls' = calls]_vars

====
